---- MODULE Spec2Model ----
(***************************************************************************)
(* A model of opatIO-cpp: the parameter-vector key (FloatIndexVector), the *)
(* in-memory file (OPAT, DataCard, OPATTable) and the interpolation engine *)
(* (TableLattice).                                                         *)
(*                                                                         *)
(* Numbers.  A double is modelled as an exact decimal: the integer n       *)
(* stands for the value n * 10^-UnitDigits.  Products and quotients of     *)
(* doubles are exact rationals (numerator over a common denominator), so   *)
(* the model has no rounding error of its own; the tolerances of the code  *)
(* (1e-8) are kept and compared exactly.                                   *)
(***************************************************************************)
EXTENDS Integers, Sequences, FiniteSets, TLC

VARIABLES
    a,                    \* a FloatIndexVector object (or NoObject)
    keyCall,              \* the last FloatIndexVector operation and its outcome
    opat,                 \* the loaded OPAT file: header and cards
    m_indexVectors,       \* TableLattice::m_indexVectors
    m_simplices,          \* TableLattice::m_simplices
    m_simplexAdjacency,   \* TableLattice::m_simplexAdjacency
    m_lastFoundSimplex,   \* TableLattice::m_lastFoundSimplex (warm-start cache)
    call,                 \* the last OPAT / TableLattice operation and its outcome
    disk,                 \* the bytes of an OPAT file on disk, by region
    bigEndian,            \* is_big_endian() of the host that reads the file
    table,                \* an OPATTable object
    constructed,          \* whether the TableLattice constructor has returned
    m_interpolationType,  \* TableLattice::m_interpolationType
    threads,              \* the get calls running on the TableLattice, by thread
    loaded_opat_file,     \* fextern.cpp: the pointer to the loaded file, or nullptr
    last_loaded_filename, \* fextern.cpp: the name of the file last loaded
    last_error_message    \* fextern.cpp: the message of the last failed load

vars == <<a, keyCall, opat, m_indexVectors, m_simplices, m_simplexAdjacency,
          m_lastFoundSimplex, call, disk, bigEndian, table, constructed,
          m_interpolationType, threads, loaded_opat_file, last_loaded_filename,
          last_error_message>>

keyVars == <<a, keyCall>>
engineVars == <<opat, m_indexVectors, m_simplices, m_simplexAdjacency,
                m_lastFoundSimplex, call>>
readerVars == <<disk, bigEndian>>
tableVars == <<table>>
modeVars == <<constructed, m_interpolationType>>
threadVars == <<threads>>
wrapperVars == <<loaded_opat_file, last_loaded_filename, last_error_message>>

-----------------------------------------------------------------------------
(* Integers of the program *)

\* the number of decimal digits a modelled double keeps after the point
UnitDigits == 2

INT_MAX == 2147483647

INT_MIN == -INT_MAX - 1

\* std::pow(10.0, k) for 0 <= k <= 9, as an integer
RECURSIVE Pow10(_)
Pow10(k) == IF k = 0 THEN 1 ELSE 10 * Pow10(k - 1)

\* C++ integer division, which truncates toward zero
CDiv(x, d) == IF x >= 0 THEN x \div d ELSE -((-x) \div d)

\* std::trunc(val * scaleFactor) for the double val = n * 10^-UnitDigits and
\* scaleFactor = 10^p.  The result can exceed what TLC's integers hold, so it
\* is kept as mantissa m and decimal exponent e: the value m * 10^e.
ScaledTrunc(n, p) ==
    IF p >= UnitDigits
    THEN [m |-> n, e |-> p - UnitDigits]
    ELSE [m |-> CDiv(n, Pow10(UnitDigits - p)), e |-> 0]

\* whether the double m * 10^e is representable in a 32-bit int
FitsInt(s) ==
    \/ s.m = 0
    \/ s.e = 0
    \/ /\ s.e <= 9
       /\ (IF s.m >= 0 THEN s.m ELSE -s.m) <= INT_MAX \div Pow10(s.e)

\* static_cast<int>(double).  Out of range the conversion is undefined: ub names
\* what the build produces, "indefinite" (x86 cvttsd2si: INT_MIN) or "saturate"
\* (AArch64 fcvtzs: INT_MAX or INT_MIN by sign).
StaticCastInt(s, ub) ==
    IF FitsInt(s) THEN s.m * (IF s.m = 0 THEN 1 ELSE Pow10(s.e))
    ELSE IF ub = "indefinite" THEN INT_MIN
    ELSE IF s.m > 0 THEN INT_MAX ELSE INT_MIN

UBOutcomes == {"indefinite", "saturate"}

\* int + 5 in 32 bits, wrapping as the two's-complement add instruction does
AddFiveWrap(value) ==
    IF value > INT_MAX - 5 THEN (value - INT_MAX) + (INT_MIN + 4) ELSE value + 5

Thrown(type, what) == [threw |-> TRUE, type |-> type, what |-> what]

Returned(v) == [threw |-> FALSE, value |-> v]

round_to_nearest_multiple_of_power_of_10(value) ==
    IF value = 0 THEN Returned(0)
    ELSE IF value < 0
    THEN Thrown("invalid_argument", "Negative value cannot be used as index")
    ELSE Returned(CDiv(AddFiveWrap(value), 10) * 10)

-----------------------------------------------------------------------------
(* FloatIndexVector (indexVector.cpp) *)

\* bound on the length of the vectors given to FloatIndexVector operations
MaxLen == 2

\* the precision of the constructors without a precision argument
DefaultPrecision == 8

\* doubles given as key values: -0.01, 0, 0.14, 0.15, 22.0 and a value whose
\* scaled integer lies within 5 of INT_MAX at precision UnitDigits
KeyValues == {-1, 0, 14, 15, 2200, INT_MAX - 2}

\* the values of the vectors longer than one element
PairValues == {-1, 15}

\* precisions given to the operations: invalid (0, 14) and valid ones
KeyPrecisions == {0, 1, UnitDigits, 14}

RECURSIVE SeqsUpTo(_, _)
SeqsUpTo(S, n) ==
    IF n = 0 THEN {<<>>}
    ELSE LET shorter == SeqsUpTo(S, n - 1)
         IN  shorter \cup {Append(s, x) : s \in {t \in shorter : Len(t) = n - 1}, x \in S}

KeyVectors == SeqsUpTo(KeyValues, 1) \cup SeqsUpTo(PairValues, MaxLen)

NoObject == [object |-> FALSE]

FIVObject(vec, vecInt, prec, init) ==
    [object |-> TRUE, m_vector |-> vec, m_vectorInt |-> vecInt,
     m_hashPrescision |-> prec, m_initialized |-> init]

\* FloatIndexVector::FloatIndexVector()
FIVDefault == FIVObject(<<>>, <<>>, DefaultPrecision, FALSE)

\* the loop body of setupVecs for one value: the int pushed to m_vectorInt, or
\* the exception of round_to_nearest_multiple_of_power_of_10
ImageElement(val, prec, ub) ==
    round_to_nearest_multiple_of_power_of_10(StaticCastInt(ScaledTrunc(val, prec), ub))

\* FloatIndexVector::setupVecs on object self.  scaleFactor is taken from the
\* member m_hashPrescision, the checks from the argument.  The int that
\* round_to_nearest_multiple_of_power_of_10 returns is stored in a uint64_t; the
\* model keeps the int, which the conversion maps one to one.
setupVecs(self, vec, hashPrescision, ub) ==
    IF self.m_initialized
    THEN Thrown("runtime_error", "Cannot set vector after initialization.")
    ELSE IF hashPrescision <= 0
    THEN Thrown("invalid_argument", "hashPrescision must be a positive integer.")
    ELSE IF hashPrescision >= 14
    THEN Thrown("invalid_argument", "hashPrescision must be less than 14.")
    ELSE IF vec = <<>>
    THEN Thrown("invalid_argument", "Input vector cannot be empty.")
    ELSE LET elems == [i \in 1..Len(vec) |-> ImageElement(vec[i], self.m_hashPrescision, ub)]
         IN  IF \E i \in 1..Len(vec) : elems[i].threw
             THEN elems[CHOOSE i \in 1..Len(vec) :
                          elems[i].threw /\ \A j \in 1..(i - 1) : ~elems[j].threw]
             ELSE Returned(FIVObject(vec, [i \in 1..Len(vec) |-> elems[i].value],
                                     self.m_hashPrescision, FALSE))

\* FloatIndexVector(vec, hashPrescision): the constructed object, or the
\* exception that leaves no object
FIVConstruct(vec, hashPrescision, ub) ==
    LET r == setupVecs(FIVObject(<<>>, <<>>, hashPrescision, FALSE), vec, hashPrescision, ub)
    IN  IF r.threw THEN r ELSE Returned([r.value EXCEPT !.m_initialized = TRUE])

\* FloatIndexVector(const FloatIndexVector& other)
FIVCopy(other) ==
    IF other.m_vector = <<>>
    THEN Thrown("invalid_argument", "Input vector cannot be empty.")
    ELSE Returned(FIVObject(other.m_vector, other.m_vectorInt,
                            other.m_hashPrescision, other.m_initialized))

\* FloatIndexVector::operator=
FIVAssign(self, other) ==
    FIVObject(other.m_vector, other.m_vectorInt, other.m_hashPrescision, other.m_initialized)

\* FloatIndexVector::setHashPrecision: the exception, or the object afterwards
FIVSetHashPrecision(self, hashPrescision) ==
    IF self.m_initialized
    THEN Thrown("runtime_error", "Cannot set hash precision after initialization.")
    ELSE IF hashPrescision <= 0
    THEN Thrown("invalid_argument", "hashPrescision must be a positive integer.")
    ELSE IF hashPrescision >= 14
    THEN Thrown("invalid_argument", "hashPrescision must be less than 14.")
    ELSE Returned([self EXCEPT !.m_hashPrescision = hashPrescision])

\* FloatIndexVector::setVector
FIVSetVector(self, vec) ==
    IF self.m_initialized
    THEN Thrown("runtime_error", "Cannot set vector after initialization.")
    ELSE IF vec = <<>>
    THEN Thrown("invalid_argument", "Input vector cannot be empty.")
    ELSE Returned([self EXCEPT !.m_vector = vec])

\* FloatIndexVector::initialize(vec): the exception and the object it leaves,
\* or the initialized object
FIVInitialize1(self, vec) ==
    IF self.m_initialized
    THEN [threw |-> TRUE, type |-> "runtime_error", after |-> self]
    ELSE LET r == FIVSetVector(self, vec)
         IN  IF r.threw THEN [threw |-> TRUE, type |-> r.type, after |-> self]
             ELSE [threw |-> FALSE, after |-> [r.value EXCEPT !.m_initialized = TRUE]]

\* FloatIndexVector::initialize(vec, hashPrescision): setHashPrecision has taken
\* effect when setVector throws
FIVInitialize2(self, vec, hashPrescision) ==
    IF self.m_initialized
    THEN [threw |-> TRUE, type |-> "runtime_error", after |-> self]
    ELSE LET r1 == FIVSetHashPrecision(self, hashPrescision)
         IN  IF r1.threw THEN [threw |-> TRUE, type |-> r1.type, after |-> self]
             ELSE LET r2 == FIVSetVector(r1.value, vec)
                  IN  IF r2.threw
                      THEN [threw |-> TRUE, type |-> r2.type, after |-> r1.value]
                      ELSE [threw |-> FALSE,
                            after |-> [r2.value EXCEPT !.m_initialized = TRUE]]

\* FloatIndexVector::operator==.  The loop runs over this object's image and
\* indexes the other's: with a shorter image on the other side the read is out
\* of bounds, undefined, and any of the three outcomes can follow.
FIVEqOutcomes(self, other) ==
    IF ~self.m_initialized \/ ~other.m_initialized THEN {"false"}
    ELSE IF Len(self.m_vector) # Len(other.m_vector) THEN {"false"}
    ELSE IF \E i \in 1..Len(self.m_vectorInt) :
               i <= Len(other.m_vectorInt) /\ self.m_vectorInt[i] # other.m_vectorInt[i]
    THEN {"false"}
    ELSE IF Len(self.m_vectorInt) > Len(other.m_vectorInt) THEN {"true", "false", "crash"}
    ELSE IF self.m_hashPrescision # other.m_hashPrescision THEN {"false"}
    ELSE {"true"}

\* FloatIndexVector::operator!=
FIVNeOutcomes(self, other) ==
    { IF r = "true" THEN "false" ELSE IF r = "false" THEN "true" ELSE r :
      r \in FIVEqOutcomes(self, other) }

\* FloatIndexVector::hash(): XXHash64 over the bytes of the image, taken here
\* as free of collisions, so that the hash is the image itself
FIVHash(iv) == iv.m_vectorInt

-----------------------------------------------------------------------------
(* The FloatIndexVector operations as actions on the object a, which is      *)
(* constructed once and then operated on                                     *)

\* the values and precisions of the second operand of ==, != and =
OtherVectors == {<<0>>, <<15>>, <<15, 15>>}

OtherPrecisions == {UnitDigits, DefaultPrecision}

\* the states a second FloatIndexVector can be in: default constructed,
\* constructed from values, or default constructed and then initialized
OtherKeys ==
    {FIVDefault}
    \cup {FIVConstruct(v, p, "saturate").value :
            v \in OtherVectors, p \in OtherPrecisions}
    \cup {FIVInitialize1(FIVDefault, v).after : v \in OtherVectors}

KeyCall(op, vec, prec, other, threw, type, outcome) ==
    [op |-> op, vec |-> vec, prec |-> prec, other |-> other,
     threw |-> threw, type |-> type, outcome |-> outcome]

NoKeyCall == KeyCall("none", <<>>, 0, NoObject, FALSE, "", "")

KeyInit ==
    /\ a = NoObject
    /\ keyCall = NoKeyCall

\* FloatIndexVector a;
Ctor0 ==
    /\ UNCHANGED <<engineVars, readerVars, threadVars, wrapperVars, tableVars, modeVars>>
    /\ ~a.object
    /\ a' = FIVDefault
    /\ keyCall' = KeyCall("ctor0", <<>>, 0, NoObject, FALSE, "", "")

\* FloatIndexVector a(vec);
Ctor1(vec, ub) ==
    /\ UNCHANGED <<engineVars, readerVars, threadVars, wrapperVars, tableVars, modeVars>>
    /\ ~a.object
    /\ LET r == FIVConstruct(vec, DefaultPrecision, ub)
       IN  /\ a' = IF r.threw THEN NoObject ELSE r.value
           /\ keyCall' = KeyCall("ctor", vec, DefaultPrecision, NoObject, r.threw,
                                 IF r.threw THEN r.type ELSE "", "")

\* FloatIndexVector a(vec, hashPrescision);
Ctor2(vec, hashPrescision, ub) ==
    /\ UNCHANGED <<engineVars, readerVars, threadVars, wrapperVars, tableVars, modeVars>>
    /\ ~a.object
    /\ LET r == FIVConstruct(vec, hashPrescision, ub)
       IN  /\ a' = IF r.threw THEN NoObject ELSE r.value
           /\ keyCall' = KeyCall("ctor", vec, hashPrescision, NoObject, r.threw,
                                 IF r.threw THEN r.type ELSE "", "")

\* FloatIndexVector a(other);
CopyCtor(other) ==
    /\ UNCHANGED <<engineVars, readerVars, threadVars, wrapperVars, tableVars, modeVars>>
    /\ ~a.object
    /\ LET r == FIVCopy(other)
       IN  /\ a' = IF r.threw THEN NoObject ELSE r.value
           /\ keyCall' = KeyCall("copy", <<>>, 0, other, r.threw,
                                 IF r.threw THEN r.type ELSE "", "")

\* a = other;
Assign(other) ==
    /\ UNCHANGED <<engineVars, readerVars, threadVars, wrapperVars, tableVars, modeVars>>
    /\ a.object
    /\ a' = FIVAssign(a, other)
    /\ keyCall' = KeyCall("assign", <<>>, 0, other, FALSE, "", "")

\* a.setHashPrecision(hashPrescision);
SetHashPrecision(hashPrescision) ==
    /\ UNCHANGED <<engineVars, readerVars, threadVars, wrapperVars, tableVars, modeVars>>
    /\ a.object
    /\ LET r == FIVSetHashPrecision(a, hashPrescision)
       IN  /\ a' = IF r.threw THEN a ELSE r.value
           /\ keyCall' = KeyCall("setHashPrecision", <<>>, hashPrescision, NoObject,
                                 r.threw, IF r.threw THEN r.type ELSE "", "")

\* a.setVector(vec);
SetVector(vec) ==
    /\ UNCHANGED <<engineVars, readerVars, threadVars, wrapperVars, tableVars, modeVars>>
    /\ a.object
    /\ LET r == FIVSetVector(a, vec)
       IN  /\ a' = IF r.threw THEN a ELSE r.value
           /\ keyCall' = KeyCall("setVector", vec, 0, NoObject,
                                 r.threw, IF r.threw THEN r.type ELSE "", "")

\* a.initialize(vec);
Initialize1(vec) ==
    /\ UNCHANGED <<engineVars, readerVars, threadVars, wrapperVars, tableVars, modeVars>>
    /\ a.object
    /\ LET r == FIVInitialize1(a, vec)
       IN  /\ a' = r.after
           /\ keyCall' = KeyCall("initialize", vec, 0, NoObject,
                                 r.threw, IF r.threw THEN r.type ELSE "", "")

\* a.initialize(vec, hashPrescision);
Initialize2(vec, hashPrescision) ==
    /\ UNCHANGED <<engineVars, readerVars, threadVars, wrapperVars, tableVars, modeVars>>
    /\ a.object
    /\ LET r == FIVInitialize2(a, vec, hashPrescision)
       IN  /\ a' = r.after
           /\ keyCall' = KeyCall("initialize", vec, hashPrescision, NoObject,
                                 r.threw, IF r.threw THEN r.type ELSE "", "")

\* a == other
CompareEq(other) ==
    /\ UNCHANGED <<engineVars, readerVars, threadVars, wrapperVars, tableVars, modeVars>>
    /\ a.object
    /\ \E r \in FIVEqOutcomes(a, other) :
          keyCall' = KeyCall("eq", <<>>, 0, other, FALSE, "", r)
    /\ a' = a

\* other == a
CompareEqRev(other) ==
    /\ UNCHANGED <<engineVars, readerVars, threadVars, wrapperVars, tableVars, modeVars>>
    /\ a.object
    /\ \E r \in FIVEqOutcomes(other, a) :
          keyCall' = KeyCall("eqRev", <<>>, 0, other, FALSE, "", r)
    /\ a' = a

\* a != other
CompareNe(other) ==
    /\ UNCHANGED <<engineVars, readerVars, threadVars, wrapperVars, tableVars, modeVars>>
    /\ a.object
    /\ \E r \in FIVNeOutcomes(a, other) :
          keyCall' = KeyCall("ne", <<>>, 0, other, FALSE, "", r)
    /\ a' = a

KeyNext ==
    \/ Ctor0
    \/ \E vec \in KeyVectors, ub \in UBOutcomes : Ctor1(vec, ub)
    \/ \E vec \in KeyVectors, p \in KeyPrecisions, ub \in UBOutcomes : Ctor2(vec, p, ub)
    \/ \E other \in OtherKeys : CopyCtor(other)
    \/ \E other \in OtherKeys : Assign(other)
    \/ \E p \in KeyPrecisions : SetHashPrecision(p)
    \/ \E vec \in KeyVectors : SetVector(vec)
    \/ \E vec \in KeyVectors : Initialize1(vec)
    \/ \E vec \in KeyVectors, p \in KeyPrecisions : Initialize2(vec, p)
    \/ \E other \in OtherKeys : CompareEq(other)
    \/ \E other \in OtherKeys : CompareEqRev(other)
    \/ \E other \in OtherKeys : CompareNe(other)

-----------------------------------------------------------------------------
(* The in-memory file: OPATTable, DataCard, OPAT (opatIO.h, opatIO.cpp) *)

\* A table cell: a number num/den, or NaN.  "garbage" is what a read past the
\* end of a data buffer yields.
Num(n) == [kind |-> "num", num |-> n, den |-> 1]

NaN == [kind |-> "nan"]

Garbage == [kind |-> "garbage"]

\* IEEE equality of values, NaN compared by position (std::isnan on both)
CellEq(x, y) ==
    \/ x.kind = "nan" /\ y.kind = "nan"
    \/ x.kind = "num" /\ y.kind = "num" /\ x.num * y.den = y.num * x.den

OPATTable(nr, nc, vsize, rows, cols, data) ==
    [N_R |-> nr, N_C |-> nc, m_vsize |-> vsize,
     rowValues |-> rows, columnValues |-> cols, data |-> data]

\* what m_vsize of a table holds that readOPATTable, slice, getRow or getColumn
\* returned: the member has no initializer and none of them assigns it
UnsetSizes == {0, 1, 2}

\* DataCard::get(tag), DataCard::operator[]
DataCardGet(card, tag) ==
    IF tag \in DOMAIN card.tableData
    THEN Returned(card.tableData[tag])
    ELSE Thrown("runtime_error", "Table not found for the given tag.")

\* DataCard::getKeys(): the tags of the card's tables
getKeys(card) == DOMAIN card.tableData

\* OPAT::get(const FloatIndexVector&), OPAT::operator[]: unordered_map::find,
\* which takes the stored key of equal hash that operator== accepts
OPATGet(file, index) ==
    LET hit == {i \in 1..Len(file.cards) :
                   /\ FIVHash(index) = FIVHash(file.cards[i].index)
                   /\ FIVEqOutcomes(index, file.cards[i].index) = {"true"}}
    IN  IF hit # {}
        THEN Returned(file.cards[CHOOSE i \in hit : TRUE].card)
        ELSE Thrown("runtime_error", "Card not found for the given index.")

\* OPAT::get(const std::vector<double>&), OPAT::operator[](const std::vector<double>&):
\* get(FloatIndexVector(index)), the key built by the one-argument constructor
OPATGetByValues(file, values, ub) ==
    LET k == FIVConstruct(values, DefaultPrecision, ub)
    IN  IF k.threw THEN k ELSE OPATGet(file, k.value)

\* FloatIndexVector::size()
FIVSize(iv) == Len(iv.m_vector)

\* FloatIndexVector::operator[] (0-based)
FIVAt(iv, i) == iv.m_vector[i + 1]

Min(S) == CHOOSE x \in S : \A y \in S : x <= y

Max(S) == CHOOSE x \in S : \A y \in S : x >= y

\* OPAT::getBounds(): per dimension, the least and greatest value of the keys
getBounds(file) ==
    [dim \in 1..file.header.numIndex |->
        [min |-> Min({FIVAt(file.cards[i].index, dim - 1) : i \in 1..Len(file.cards)}),
         max |-> Max({FIVAt(file.cards[i].index, dim - 1) : i \in 1..Len(file.cards)})]]

-----------------------------------------------------------------------------
(* TableLattice (tableLattice.cpp) *)

\* static_cast<std::size_t>(-1), the "no neighbor" and "no simplex" ID
NO_NEIGHBOR_SENTINEL == -1

\* BARYCENTRIC_TOLERANCE is 1 / TolDen
TolDen == 100000000

\* sequences are 1-based, the program's IDs and indices 0-based
At(seq, i) == seq[i + 1]

\* A weight vector is kept as integer numerators over a common positive
\* denominator: weight i is nums[i + 1] / den.
Weights(nums, den) == [nums |-> nums, den |-> den]

\* a tolerance test that no weight fails
NeverBelowNegTol(num, den) == FALSE

\* w < -BARYCENTRIC_TOLERANCE for w = num / den, den > 0
BelowNegTol(num, den) == num < 0 /\ den \div (-num) < TolDen

\* w > 1.0 + BARYCENTRIC_TOLERANCE for w = num / den, den > 0
AboveOnePlusTol(num, den) == num > den /\ den \div (num - den) < TolDen

\* solveLinearSystem(M, b) for the N x N matrix M (N = 1, 2), by Cramer's rule
\* in place of the LU factorization: the numerators of the solution and the
\* determinant, or the exception of a singular matrix
solveLinearSystem(M, bv) ==
    LET n == Len(bv)
        det == IF n = 1 THEN M[1][1]
               ELSE M[1][1] * M[2][2] - M[1][2] * M[2][1]
        nums == IF n = 1 THEN <<bv[1]>>
                ELSE <<bv[1] * M[2][2] - M[1][2] * bv[2],
                       M[1][1] * bv[2] - bv[1] * M[2][1]>>
    IN  IF det = 0
        THEN Thrown("runtime_error", "Lu factorization failed (singular matrix A)")
        ELSE IF det > 0 THEN Returned(Weights(nums, det))
        ELSE Returned(Weights([i \in 1..n |-> -nums[i]], -det))

RECURSIVE SeqSum(_)
SeqSum(seq) == IF seq = <<>> THEN 0 ELSE seq[1] + SeqSum(Tail(seq))

\* TableLattice::calculateBarycentricWeights
calculateBarycentricWeights(N, queryPoint, simplexActualVertices) ==
    IF Len(simplexActualVertices) # N + 1
    THEN Thrown("invalid_argument", "Incorrect number of simplex vertices provided.")
    ELSE IF FIVSize(queryPoint) # N
    THEN Thrown("invalid_argument", "Query point dimension does not match lattice dimension N.")
    ELSE IF \E i \in 1..(N + 1) : FIVSize(simplexActualVertices[i]) # N
    THEN Thrown("invalid_argument", "Simplex vertex has the wrong dimension.")
    ELSE LET v0 == simplexActualVertices[1]
             bv == [i \in 1..N |-> FIVAt(queryPoint, i - 1) - FIVAt(v0, i - 1)]
             M  == [i \in 1..N |-> [j \in 1..N |->
                       FIVAt(simplexActualVertices[j + 1], i - 1) - FIVAt(v0, i - 1)]]
             solution == solveLinearSystem(M, bv)
         IN  IF solution.threw
             THEN Thrown("runtime_error", "Failed to solve linear system for weights.")
             ELSE LET sumOfw1wN == SeqSum(solution.value.nums)
                      den == solution.value.den
                  IN  Returned(Weights(<<den - sumOfw1wN>> \o solution.value.nums, den))

\* validateIndexVector without its bounds loop: the variant C4 is checked against
validateDimensionOnly(file, indexVector) ==
    IF FIVSize(indexVector) # file.header.numIndex
    THEN Thrown("invalid_argument", "Invalid query index vector dimension.")
    ELSE Returned("valid")

\* TableLattice::validateIndexVector: the exception, or "valid"
validateIndexVector(file, indexVector) ==
    LET bounds == getBounds(file)
    IN  IF FIVSize(indexVector) # file.header.numIndex
        THEN Thrown("invalid_argument", "Invalid query index vector dimension.")
        ELSE IF \E dim \in 0..(file.header.numIndex - 1) :
                    \/ FIVAt(indexVector, dim) < At(bounds, dim).min
                    \/ FIVAt(indexVector, dim) > At(bounds, dim).max
        THEN Thrown("out_of_range", "Query index vector out of bounds.")
        ELSE Returned("valid")

\* a step cap of one step
OneWalkStep(simplices) == 1

\* MAX_WALK_STEPS of findContainingSimplex
MaxWalkSteps(simplices) ==
    IF Len(simplices) > 0 THEN Len(simplices) * 2 + 10 ELSE 100

\* the result of a walk: the exception or the located simplex, and the IDs of
\* the simplices visited, in order
WalkThrown(type, what, visited) ==
    [threw |-> TRUE, type |-> type, what |-> what, visited |-> visited]

WalkFound(id, weights, visited) ==
    [threw |-> FALSE, ID |-> id, barycentricWeights |-> weights, visited |-> visited]

\* an exit-face search that finds no negative weight: the variant C3 is checked
\* against
ExitFaceNotFound(w) == -1

\* the first index of the most negative weight, or -1 when no weight is negative
\* (the loop of findContainingSimplex over barycentricWeights)
ExitFace(w) ==
    LET neg == {i \in 1..Len(w.nums) : w.nums[i] < 0}
    IN  IF neg = {} THEN -1
        ELSE (CHOOSE i \in neg :
                 /\ \A j \in neg : w.nums[i] <= w.nums[j]
                 /\ \A j \in neg : j < i => w.nums[j] > w.nums[i]) - 1

\* a cycle detection that never recognises a simplex
NeverRevisited(visited, currentSimplexID) == FALSE

\* visitedSimplicesInThisWalk.contains(currentSimplexID)
Revisited(visited, currentSimplexID) ==
    \E k \in 1..Len(visited) : visited[k] = currentSimplexID

\* the loop of findContainingSimplex ("Step 2: walking through the simplices"),
\* from currentSimplexID with the simplices `visited` behind it
RECURSIVE Walk(_, _, _, _, _, _, _, _)
Walk(N, indexVectors, simplices, adjacency, queryPoint, currentSimplexID, visited, stepCount) ==
    IF stepCount >= MaxWalkSteps(simplices)
    THEN WalkThrown("runtime_error", "maximum walk steps", visited)
    ELSE IF currentSimplexID >= Len(simplices)
    THEN WalkThrown("out_of_range", "currentSimplexID is out of bounds", visited)
    ELSE IF Revisited(visited, currentSimplexID)
    THEN WalkThrown("runtime_error", "Cycle detected", visited)
    ELSE
    LET visitedNow == Append(visited, currentSimplexID)
        ids == At(simplices, currentSimplexID)
    IN  IF Len(ids) # N + 1
        THEN WalkThrown("runtime_error", "incorrect number of vertices", visitedNow)
        ELSE IF \E k \in 1..Len(ids) : ids[k] >= Len(indexVectors)
        THEN WalkThrown("out_of_range", "Global vertex ID is out of bounds", visitedNow)
        ELSE
        LET verts == [k \in 1..Len(ids) |-> At(indexVectors, ids[k])]
            bw == calculateBarycentricWeights(N, queryPoint, verts)
        IN  IF bw.threw THEN WalkThrown(bw.type, bw.what, visitedNow)
            ELSE
            LET w == bw.value
                isInsideOrOnBoundary ==
                    \A i \in 1..Len(w.nums) :
                        ~(BelowNegTol(w.nums[i], w.den) \/ AboveOnePlusTol(w.nums[i], w.den))
                face == ExitFace(w)
            IN  IF isInsideOrOnBoundary THEN WalkFound(currentSimplexID, w, visitedNow)
                ELSE IF face = -1 \/ ~BelowNegTol(At(w.nums, face), w.den)
                THEN WalkThrown("runtime_error", "could not determine a clear exit face",
                                visitedNow)
                ELSE IF \/ currentSimplexID >= Len(adjacency)
                        \/ face >= Len(At(adjacency, currentSimplexID))
                THEN WalkThrown("out_of_range", "Adjacency lookup out of bounds", visitedNow)
                ELSE
                LET neighborSimplexID == At(At(adjacency, currentSimplexID), face)
                    pointActuallyInThisHullSimplex == isInsideOrOnBoundary
                IN  IF neighborSimplexID = NO_NEIGHBOR_SENTINEL
                    THEN IF pointActuallyInThisHullSimplex
                         THEN WalkFound(currentSimplexID, w, visitedNow)
                         ELSE WalkThrown("out_of_range",
                                         "Query point is outside the convex hull", visitedNow)
                    ELSE Walk(N, indexVectors, simplices, adjacency, queryPoint,
                              neighborSimplexID, visitedNow, stepCount + 1)

\* a findContainingSimplex without warm start: every walk begins at simplex 0
findFromFirstSimplex(file, indexVectors, simplices, adjacency, lastFound, queryPoint) ==
    LET v == validateIndexVector(file, queryPoint)
        N == file.header.numIndex
    IN  IF v.threw THEN WalkThrown(v.type, v.what, <<>>)
        ELSE IF simplices = <<>>
        THEN WalkThrown("runtime_error", "No simplices found", <<>>)
        ELSE IF FIVSize(queryPoint) # N
        THEN WalkThrown("invalid_argument", "Query point dimension", <<>>)
        ELSE Walk(N, indexVectors, simplices, adjacency, queryPoint, 0, <<>>, 0)

\* TableLattice::findContainingSimplex, given the warm-start cache lastFound
findContainingSimplex(file, indexVectors, simplices, adjacency, lastFound, queryPoint) ==
    LET v == validateIndexVector(file, queryPoint)
        N == file.header.numIndex
        start == IF lastFound.ID # NO_NEIGHBOR_SENTINEL /\ lastFound.ID < Len(simplices)
                 THEN lastFound.ID ELSE 0
    IN  IF v.threw THEN WalkThrown(v.type, v.what, <<>>)
        ELSE IF simplices = <<>>
        THEN WalkThrown("runtime_error", "No simplices found", <<>>)
        ELSE IF FIVSize(queryPoint) # N
        THEN WalkThrown("invalid_argument", "Query point dimension", <<>>)
        ELSE Walk(N, indexVectors, simplices, adjacency, queryPoint, start, <<>>, 0)

\* resultData[idx] += weights[corner] * cornerData[idx] for one cell, the sum
\* kept over the weights' denominator.  NaN times any weight (0 included) is
\* NaN, and NaN plus anything is NaN.
Accumulate(acc, wnum, den, cornerCell) ==
    IF acc.kind = "garbage" \/ cornerCell.kind = "garbage" THEN Garbage
    ELSE IF acc.kind = "nan" \/ cornerCell.kind = "nan" THEN NaN
    ELSE [kind |-> "num", num |-> acc.num + wnum * cornerCell.num, den |-> den]

\* cornerData[idx]: past the end of the corner's buffer the read is undefined
CornerCell(cornerTable, idx) ==
    IF idx <= Len(cornerTable.data) THEN cornerTable.data[idx] ELSE Garbage

\* the loop over the corners of TableLattice::get for one table tag, from
\* corner (1-based) on, with the result data accumulated so far
RECURSIVE BlendCorners(_, _, _, _, _, _, _)
BlendCorners(file, indexVectors, simplex, weights, key, corner, acc) ==
    IF corner > Len(simplex) THEN Returned(acc)
    ELSE LET iv == At(indexVectors, simplex[corner])
             card == OPATGet(file, iv)
             cornerTable == IF card.threw THEN card ELSE DataCardGet(card.value, key)
         IN  IF cornerTable.threw THEN cornerTable
             ELSE BlendCorners(file, indexVectors, simplex, weights, key, corner + 1,
                    [idx \in 1..Len(acc) |->
                        Accumulate(acc[idx], weights.nums[corner], weights.den,
                                   CornerCell(cornerTable.value, idx))])

\* the body of the loop over the anchor's tags in TableLattice::get: the
\* result table of one tag, or the exception of a failed lookup
BlendTable(file, indexVectors, simplex, weights, baseDataCard, key) ==
    LET baseTable == baseDataCard.tableData[key]
        total == baseTable.N_R * baseTable.N_C * baseTable.m_vsize
        blended == BlendCorners(file, indexVectors, simplex, weights, key, 1,
                                [idx \in 1..total |-> [kind |-> "num", num |-> 0,
                                                       den |-> weights.den]])
    IN  IF blended.threw THEN blended
        ELSE Returned(OPATTable(baseTable.N_R, baseTable.N_C, baseTable.m_vsize,
                                baseTable.rowValues, baseTable.columnValues, blended.value))

\* the outcome of TableLattice::get: the exception or the DataCard, the
\* simplices visited by the walk, and the warm-start cache afterwards
GetOutcome(threw, type, what, card, visited, cache) ==
    [threw |-> threw, type |-> type, what |-> what, card |-> card,
     visited |-> visited, cache |-> cache]

NoCard == [header |-> "none", tableData |-> <<>>]

\* the end of TableLattice::get: the DataCard built from the blended tables, or
\* the exception of the first tag whose blend failed
GetResult(baseDataCard, tables, visited, cache) ==
    IF \E key \in DOMAIN tables : tables[key].threw
    THEN LET failed == tables[CHOOSE k \in DOMAIN tables : tables[k].threw]
         IN  GetOutcome(TRUE, failed.type, failed.what, NoCard, visited, cache)
    ELSE GetOutcome(FALSE, "", "",
                    [header |-> baseDataCard.header,
                     tableData |-> [key \in DOMAIN tables |-> tables[key].value]],
                    visited, cache)

\* TableLattice::get from the lookup of the anchor card (the card of the
\* simplex's first vertex) on
GetFromAnchor(file, indexVectors, simplex, weights, base, visited, cache) ==
    IF base.threw THEN GetOutcome(TRUE, base.type, base.what, NoCard, visited, cache)
    ELSE GetResult(base.value,
                   [key \in getKeys(base.value) |->
                      BlendTable(file, indexVectors, simplex, weights, base.value, key)],
                   visited, cache)

\* a get that empties the cache when the location fails
GetClearingCache(file, indexVectors, simplices, lastFound, found) ==
    IF found.threw
    THEN GetOutcome(TRUE, found.type, found.what, NoCard, found.visited,
                    [ID |-> NO_NEIGHBOR_SENTINEL, barycentricWeights |-> Weights(<<>>, 1)])
    ELSE GetFromAnchor(file, indexVectors, At(simplices, found.ID),
                       found.barycentricWeights,
                       OPATGet(file, At(indexVectors, At(simplices, found.ID)[1])),
                       found.visited,
                       [ID |-> found.ID, barycentricWeights |-> found.barycentricWeights])

\* TableLattice::get after findContainingSimplex returned `found`, which has
\* written the cache when it located a simplex
GetLocated(file, indexVectors, simplices, lastFound, found) ==
    IF found.threw
    THEN GetOutcome(TRUE, found.type, found.what, NoCard, found.visited, lastFound)
    ELSE GetFromAnchor(file, indexVectors, At(simplices, found.ID),
                       found.barycentricWeights,
                       OPATGet(file, At(indexVectors, At(simplices, found.ID)[1])),
                       found.visited,
                       [ID |-> found.ID, barycentricWeights |-> found.barycentricWeights])

\* TableLattice::get
TableLatticeGet(file, indexVectors, simplices, adjacency, lastFound, indexVector) ==
    LET v == validateIndexVector(file, indexVector)
    IN  IF v.threw THEN GetOutcome(TRUE, v.type, v.what, NoCard, <<>>, lastFound)
        ELSE GetLocated(file, indexVectors, simplices, lastFound,
                        findContainingSimplex(file, indexVectors, simplices, adjacency,
                                              lastFound, indexVector))

\* The adjacency loop of TableLattice::buildDelaunay: for simplex i and each
\* neighboring simplex j (qhull: the simplices sharing a ridge with i), the entry
\* at the local index of i's vertex that j does not share is j; every other
\* entry stays NO_NEIGHBOR.
BuildAdjacency(simplices) ==
    [i \in 1..Len(simplices) |->
        [k \in 1..Len(simplices[i]) |->
            LET face == {simplices[i][l] : l \in 1..Len(simplices[i])} \ {simplices[i][k]}
                nbrs == {j \in 1..Len(simplices) :
                            /\ j # i
                            /\ face \subseteq {simplices[j][l] : l \in 1..Len(simplices[j])}}
            IN  IF nbrs = {} THEN NO_NEIGHBOR_SENTINEL ELSE (CHOOSE j \in nbrs : TRUE) - 1]]

-----------------------------------------------------------------------------
(* The files and triangulations the engine is run on *)

\* the length of the long axis of the "thin" file, in units of the short one:
\* a query one unit off its hull has a weight of -1/ThinLength > -1e-8
ThinLength == 200000000

\* Stored keys (as doubles), the simplex lists qhull may return for them (vertex
\* IDs index the keys, 0-based), the query vectors given to TableLattice::get and
\* the vectors a card is looked up by.
LineScenario ==
    [numIndex |-> 1,
     points |-> << <<0>>, <<2>>, <<4>> >>,
     triangulations |-> { << <<0, 1>>, <<2, 1>> >>, << <<1, 2>>, <<1, 0>> >> },
     queries |-> {<<x>> : x \in 0..5} \cup {<<1, 1>>},
     lookups |-> {<<0>>, <<2>>, <<3>>, <<>>}]

FanScenario ==
    [numIndex |-> 2,
     points |-> << <<0, 0>>, <<4, 0>>, <<0, 4>>, <<1, 1>> >>,
     triangulations |-> { << <<0, 1, 3>>, <<3, 2, 0>>, <<1, 2, 3>> >>,
                          << <<3, 1, 2>>, <<0, 3, 1>>, <<2, 0, 3>> >> },
     queries |-> {<<x, y>> : x \in {0, 2, 4}, y \in {0, 2, 4}}
                    \cup {<<1, 1>>, <<3, 3>>, <<5, 0>>, <<1>>},
     lookups |-> {<<0, 0>>, <<1, 1>>, <<1, 0>>, <<1>>}]

ThinScenario ==
    [numIndex |-> 2,
     points |-> << <<0, 0>>, <<ThinLength, 0>>, <<0, 1>> >>,
     triangulations |-> { << <<0, 1, 2>> >>, << <<2, 0, 1>> >> },
     queries |-> {<<x, y>> : x \in {0, 1, ThinLength}, y \in {0, 1}},
     lookups |-> {<<0, 0>>, <<ThinLength, 0>>, <<0, 1>>, <<1, 1>>}]

\* the length of the long axis of the "sliver" file: the simplex of its keys
\* 1, 2, 3 has twice the area SliverLength - 4, so that a weight of -1 over it
\* lies between -1e-8 and 0 and two of them add up to less than -1e-8
SliverLength == 150000000

\* a fan around the key (2, 1): the query (1, 1) lies inside the simplex of keys
\* 2, 0, 3 and just beyond the vertex (2, 1) of the simplex of keys 1, 2, 3
SliverScenario ==
    [numIndex |-> 2,
     points |-> << <<0, 0>>, <<SliverLength, 0>>, <<0, 2>>, <<2, 1>> >>,
     triangulations |-> { << <<1, 2, 3>>, <<0, 1, 3>>, <<2, 0, 3>> >>,
                          << <<2, 0, 3>>, <<1, 2, 3>>, <<0, 1, 3>> >> },
     queries |-> {<<1, 1>>, <<2, 1>>, <<0, 0>>, <<1, 2>>},
     lookups |-> {<<0, 0>>, <<2, 1>>, <<1, 1>>}]

Scenarios == {LineScenario, FanScenario, ThinScenario, SliverScenario}

\* twice the signed area of the triangle pa, pb, pc
Orient(pa, pb, pc) ==
    (pb[1] - pa[1]) * (pc[2] - pa[2]) - (pc[1] - pa[1]) * (pb[2] - pa[2])

\* whether pd lies strictly inside the circle through pa, pb, pc
InCircumcircle(pa, pb, pc, pd) ==
    LET ax == pa[1] - pd[1]
        ay == pa[2] - pd[2]
        bx == pb[1] - pd[1]
        by == pb[2] - pd[2]
        cx == pc[1] - pd[1]
        cy == pc[2] - pd[2]
        det == (ax * ax + ay * ay) * (bx * cy - cx * by)
               - (bx * bx + by * by) * (ax * cy - cx * ay)
               + (cx * cx + cy * cy) * (ax * by - bx * ay)
    IN  IF Orient(pa, pb, pc) > 0 THEN det > 0 ELSE det < 0

\* whether p lies strictly inside the triangle pa, pb, pc
InsideTriangle(pa, pb, pc, p) ==
    \/ Orient(pa, pb, p) > 0 /\ Orient(pb, pc, p) > 0 /\ Orient(pc, pa, p) > 0
    \/ Orient(pa, pb, p) < 0 /\ Orient(pb, pc, p) < 0 /\ Orient(pc, pa, p) < 0

\* four points of the plane, one strictly inside the triangle of the other
\* three, have one triangulation only, the three triangles around the inner
\* point: it is the Delaunay triangulation whatever the circles are
IsFan(points, simplices) ==
    /\ Len(points) = 4
    /\ Len(simplices) = 3
    /\ \E o \in 1..4 :
          LET hull == (1..4) \ {o}
          IN  /\ \E i, j, k \in hull :
                    /\ i < j /\ j < k
                    /\ InsideTriangle(points[i], points[j], points[k], points[o])
              /\ {{simplices[i][l] + 1 : l \in 1..Len(simplices[i])} : i \in 1..3}
                    = {{o, x, y} : x, y \in hull} \ {{o, x} : x \in hull}

\* simplices that are not flat and whose circumscribed ball holds no other
\* input point in its interior
EmptyCircles(numIndex, points, simplices) ==
    \A i \in 1..Len(simplices) :
        LET ids == simplices[i]
            others == (1..Len(points)) \ {ids[l] + 1 : l \in 1..Len(ids)}
        IN  IF numIndex = 1
            THEN LET lo == Min({points[ids[l] + 1][1] : l \in 1..2})
                     hi == Max({points[ids[l] + 1][1] : l \in 1..2})
                 IN  lo < hi /\ \A o \in others : ~(lo < points[o][1] /\ points[o][1] < hi)
            ELSE LET pa == points[ids[1] + 1]
                     pb == points[ids[2] + 1]
                     pc == points[ids[3] + 1]
                 IN  /\ Orient(pa, pb, pc) # 0
                     /\ \A o \in others : ~InCircumcircle(pa, pb, pc, points[o])

\* what qhull ("d Qt") guarantees of its output
IsDelaunay(numIndex, points, simplices) ==
    IF numIndex = 2 /\ IsFan(points, simplices) THEN TRUE
    ELSE EmptyCircles(numIndex, points, simplices)

\* hashPrecision values of the file header
HeaderPrecisions == {UnitDigits + 1, DefaultPrecision}

\* the tags a table is asked for
Tags == {"data", "aux"}

\* the key whose card holds a NaN cell (0-based); a file without that key holds
\* no NaN
NanKeys == {-1, 0, 3}

\* the kinds of file loaded: which key's card holds a NaN cell, what the
\* unassigned m_vsize of the loaded tables holds, and whether the card of the
\* first key has a second table "aux" that no other card has, and whether the
\* table of the card of the second key is smaller than the others
PlainFile == [nanKey |-> -1, vsize |-> 1, aux |-> FALSE, small |-> FALSE]

FileKinds ==
    {[PlainFile EXCEPT !.nanKey = k] : k \in NanKeys}
       \cup {[PlainFile EXCEPT !.vsize = v] : v \in UnsetSizes}
       \cup {[PlainFile EXCEPT !.aux = TRUE]}
       \cup {[PlainFile EXCEPT !.small = TRUE]}

\* the table of the card of key number id (0-based) as readOPATTable returns
\* it: one row, two cells, the second NaN in the card of key nanKey
CardTable(id, nanKey, vsize) ==
    OPATTable(1, 2, vsize, <<0>>, <<0, 1>>,
              <<Num(id * id + 1), IF id = nanKey THEN NaN ELSE Num(5 - id)>>)

\* a table of one row and one cell, as readOPATTable returns it
SmallTable(id, vsize) ==
    OPATTable(1, 1, vsize, <<0>>, <<0>>, <<Num(id * id + 1)>>)

\* the OPAT object readOPAT returns for a file with these keys
LoadedFile(scn, hashPrecision, kind) ==
    [header |-> [numIndex |-> scn.numIndex, hashPrecision |-> hashPrecision,
                 numTables |-> Len(scn.points)],
     cards |-> [i \in 1..Len(scn.points) |->
                  [index |-> FIVConstruct(scn.points[i], hashPrecision, "saturate").value,
                   card |-> [header |-> i - 1,
                             tableData |->
                                 [t \in (IF kind.aux /\ i = 1 THEN {"data", "aux"}
                                         ELSE {"data"}) |->
                                     IF kind.small /\ i = 2
                                     THEN SmallTable(i - 1, kind.vsize)
                                     ELSE CardTable(i - 1, kind.nanKey, kind.vsize)]]]]]

\* the file loads: every key value fits the int of the key's image
Loadable(scn, hashPrecision) ==
    \A i \in 1..Len(scn.points) : \A d \in 1..scn.numIndex :
        LET st == ScaledTrunc(scn.points[i][d], hashPrecision)
        IN  FitsInt(st) /\ StaticCastInt(st, "saturate") <= INT_MAX - 5

\* Simplex{} : ID = -1, no weights
NoSimplex == [ID |-> NO_NEIGHBOR_SENTINEL, barycentricWeights |-> Weights(<<>>, 1)]

Call(op, arg, prec, tag, out) ==
    [op |-> op, arg |-> arg, prec |-> prec, tag |-> tag, threw |-> out.threw,
     type |-> out.type, what |-> out.what, card |-> out.card, visited |-> out.visited]

NoCall == Call("none", <<>>, 0, "", GetOutcome(FALSE, "", "", NoCard, <<>>, NoSimplex))

-----------------------------------------------------------------------------
(* The engine: a loaded file, a TableLattice built on it, and their operations *)

\* readOPAT, then TableLattice(opat): initialize() copies the catalog's keys,
\* buildDelaunay() stores qhull's simplices and derives the adjacency table
EngineInit ==
    \E scn \in Scenarios, hp \in HeaderPrecisions :
        /\ Loadable(scn, hp)
        /\ \E kind \in FileKinds, tri \in scn.triangulations :
              /\ IsDelaunay(scn.numIndex, scn.points, tri)
              /\ opat = LoadedFile(scn, hp, kind)
              /\ m_indexVectors = [i \in 1..Len(scn.points) |->
                                      LoadedFile(scn, hp, kind).cards[i].index]
              /\ m_simplices = tri
              /\ m_simplexAdjacency = BuildAdjacency(tri)
              /\ m_lastFoundSimplex = NoSimplex
              /\ call = NoCall

\* the scenario of the loaded file
ScenarioOf(file) ==
    CHOOSE scn \in Scenarios :
        /\ scn.numIndex = file.header.numIndex
        /\ Len(scn.points) = Len(file.cards)
        /\ \A i \in 1..Len(scn.points) : scn.points[i] = file.cards[i].index.m_vector

\* a query key holding the values qv: FloatIndexVector q; q.initialize(qv);
QueryKey(qv) == FIVInitialize1(FIVDefault, qv).after

\* lattice.get(q) for the query key q of the values qv
Get(qv) ==
    /\ UNCHANGED <<keyVars, readerVars, threadVars, wrapperVars, tableVars, modeVars>>
    /\ LET out == TableLatticeGet(opat, m_indexVectors, m_simplices, m_simplexAdjacency,
                                  m_lastFoundSimplex, QueryKey(qv))
       IN  /\ m_lastFoundSimplex' = out.cache
           /\ call' = Call("get", qv, 0, "", out)
    /\ UNCHANGED <<opat, m_indexVectors, m_simplices, m_simplexAdjacency>>

FileOutcome(r) ==
    GetOutcome(r.threw, IF r.threw THEN r.type ELSE "", IF r.threw THEN r.what ELSE "",
               IF r.threw THEN NoCard ELSE r.value, <<>>, NoSimplex)

\* opat.get(std::vector<double>)
GetByValues(values, ub) ==
    /\ UNCHANGED <<keyVars, readerVars, threadVars, wrapperVars, tableVars, modeVars>>
    /\ call' = Call("getByValues", values, 0, "", FileOutcome(OPATGetByValues(opat, values, ub)))
    /\ UNCHANGED <<opat, m_indexVectors, m_simplices, m_simplexAdjacency, m_lastFoundSimplex>>

\* opat[std::vector<double>]
IndexByValues(values, ub) ==
    /\ UNCHANGED <<keyVars, readerVars, threadVars, wrapperVars, tableVars, modeVars>>
    /\ call' = Call("indexByValues", values, 0, "", FileOutcome(OPATGetByValues(opat, values, ub)))
    /\ UNCHANGED <<opat, m_indexVectors, m_simplices, m_simplexAdjacency, m_lastFoundSimplex>>

\* opat.get(FloatIndexVector(values, prec))
GetByKey(values, prec, ub) ==
    /\ UNCHANGED <<keyVars, readerVars, threadVars, wrapperVars, tableVars, modeVars>>
    /\ ~FIVConstruct(values, prec, ub).threw
    /\ call' = Call("getByKey", values, prec, "",
                    FileOutcome(OPATGet(opat, FIVConstruct(values, prec, ub).value)))
    /\ UNCHANGED <<opat, m_indexVectors, m_simplices, m_simplexAdjacency, m_lastFoundSimplex>>

\* opat.get(key).get(tag) for the stored key number id
CardGet(id, tag) ==
    /\ UNCHANGED <<keyVars, readerVars, threadVars, wrapperVars, tableVars, modeVars>>
    /\ LET r == DataCardGet(At(opat.cards, id).card, tag)
       IN  call' = Call("cardGet", At(opat.cards, id).index.m_vector, 0, tag,
                        GetOutcome(r.threw, IF r.threw THEN r.type ELSE "",
                                   IF r.threw THEN r.what ELSE "",
                                   IF r.threw THEN NoCard
                                   ELSE [header |-> At(opat.cards, id).card.header,
                                         tableData |-> [t \in {tag} |-> r.value]],
                                   <<>>, NoSimplex))
    /\ UNCHANGED <<opat, m_indexVectors, m_simplices, m_simplexAdjacency, m_lastFoundSimplex>>

\* the vectors of doubles a card is looked up by
LookupValues == ScenarioOf(opat).lookups

\* the outcomes of the casts of one key construction: where every scaled value
\* fits an int the cast is defined and the build makes no difference
CastOutcomes(values, prec) ==
    IF \A i \in 1..Len(values) : FitsInt(ScaledTrunc(values[i], prec))
    THEN {"saturate"} ELSE UBOutcomes

EngineNext ==
    \/ \E qv \in ScenarioOf(opat).queries : Get(qv)
    \/ \E values \in LookupValues :
          \E ub \in CastOutcomes(values, DefaultPrecision) : GetByValues(values, ub)
    \/ \E values \in LookupValues :
          \E ub \in CastOutcomes(values, DefaultPrecision) : IndexByValues(values, ub)
    \/ \E values \in LookupValues :
          \E ub \in CastOutcomes(values, opat.header.hashPrecision) :
             GetByKey(values, opat.header.hashPrecision, ub)
    \/ \E id \in 0..(Len(opat.cards) - 1), tag \in Tags : CardGet(id, tag)

-----------------------------------------------------------------------------
(* The file on disk and its reader (opatIO.cpp: readOPAT and what it calls) *)

\* sizeof(Header), sizeof(CardHeader) and sizeof(TableIndexEntry) under
\* #pragma pack(1), sizeof(double), and the bytes of a catalog record after
\* its index values (two uint64 and the SHA-256)
SizeofHeader == 256

SizeofCardHeader == 256

SizeofTableIndexEntry == 64

SizeofDouble == 8

CatalogEntryFixedSize == 48

\* the w bytes of the unsigned integer v, least significant first: the order
\* of the file, and of memory after file.read
RECURSIVE Bytes(_, _)
Bytes(v, w) == IF w = 0 THEN <<>> ELSE <<v % 256>> \o Bytes(v \div 256, w - 1)

Reverse(s) == [i \in 1..Len(s) |-> s[Len(s) + 1 - i]]

\* opat::swap_bytes, on the bytes of a value in memory
swap_bytes(value) == Reverse(value)

\* The unsigned integer a host takes the memory bytes mem for, as its base-256
\* digits, least significant first.  The digits are kept, not summed: a field
\* read in the wrong byte order exceeds what the model's integers hold.
HostInt(mem, big) == IF big THEN Reverse(mem) ELSE mem

\* the integer of base-256 digits
RECURSIVE ToInt(_)
ToInt(digits) == IF digits = <<>> THEN 0 ELSE Head(digits) + 256 * ToInt(Tail(digits))

\* an integer object that was never written
Indeterminate == <<-1>>

\* std::istream::gcount() after read(buf, n) at position pos of a file of
\* size bytes; a stream whose failbit is set reads nothing
Gcount(size, good, pos, n) ==
    IF ~good THEN 0
    ELSE IF size - pos >= n THEN n
    ELSE IF size > pos THEN size - pos
    ELSE 0

\* the doubles a read of n doubles at pos leaves in a buffer allocated with
\* new double[n]: elements the file does not hold stay indeterminate
ReadDoubles(size, good, pos, src, n) ==
    [i \in 1..n |-> IF good /\ pos + SizeofDouble * i <= size /\ i <= Len(src)
                    THEN src[i] ELSE Garbage]

\* hasMagic: with fewer than four bytes in the file the buffer compared with
\* "OPAT" is indeterminate
hasMagic(d) == IF d.size >= 4 THEN {d.header.magic = "OPAT"} ELSE BOOLEAN

\* readHeader
readHeader(d, big) ==
    IF Gcount(d.size, TRUE, 0, SizeofHeader) # SizeofHeader
    THEN Thrown("runtime_error", "Error reading header from file")
    ELSE LET raw == [magic |-> d.header.magic,
                     version |-> Bytes(d.header.version, 2),
                     numTables |-> Bytes(d.header.numTables, 4),
                     headerSize |-> Bytes(d.header.headerSize, 4),
                     indexOffset |-> Bytes(d.header.indexOffset, 8),
                     numIndex |-> Bytes(d.header.numIndex, 2),
                     hashPrecision |-> Bytes(d.header.hashPrecision, 1)]
             mem == IF big
                    THEN [raw EXCEPT !.version = swap_bytes(@),
                                     !.numTables = swap_bytes(@),
                                     !.indexOffset = swap_bytes(@),
                                     !.numIndex = swap_bytes(@)]
                    ELSE raw
         IN  Returned([magic |-> mem.magic,
                       version |-> HostInt(mem.version, big),
                       numTables |-> HostInt(mem.numTables, big),
                       headerSize |-> HostInt(mem.headerSize, big),
                       indexOffset |-> HostInt(mem.indexOffset, big),
                       numIndex |-> HostInt(mem.numIndex, big),
                       hashPrecision |-> HostInt(mem.hashPrecision, big)])

\* the catalog record that starts at byte offset of the file; the records lie
\* back to back from d.catalogAt.  Bytes that are no whole record read as zeros.
RecordAt(d, offset) ==
    LET ks == {k \in 1..Len(d.catalog) : d.catalogAt + (k - 1) * d.recordSize = offset}
    IN  IF ks # {} THEN d.catalog[CHOOSE k \in ks : TRUE]
        ELSE [index |-> [j \in 1..d.header.numIndex |-> 0], byteStart |-> 0, byteEnd |-> 0]

\* the CardCatalogEntry of readCardCatalogEntry once the key is built, or the
\* exception of the key's constructor
CatalogEntryOf(indexVector, good, byteStart, byteEnd) ==
    IF indexVector.threw THEN indexVector
    ELSE [threw |-> FALSE, good |-> good,
          entry |-> [index |-> FIVAssign(FIVDefault, indexVector.value),
                     byteStart |-> byteStart, byteEnd |-> byteEnd]]

\* the value of a uint64 member read from the file (little-endian bytes v) or
\* never written, after the swap of a big-endian host
ReadUint64(got, v, big) ==
    HostInt(IF big THEN swap_bytes(IF got THEN Bytes(v, 8) ELSE Indeterminate)
            ELSE (IF got THEN Bytes(v, 8) ELSE Indeterminate), big)

\* readCardCatalogEntry: no read is checked.  The index is a std::vector<double>
\* (zeros where nothing was read), byteStart and byteEnd are members of a
\* default-initialized struct.  The key is built from whatever the buffer holds;
\* its constructor can throw.  good is the stream's state before, and after.
readCardCatalogEntry(d, big, good, offset, numIndex, hashPrecision, ub) ==
    CatalogEntryOf(
        FIVConstruct([j \in 1..numIndex |->
                         IF /\ good
                            /\ offset + SizeofDouble * j <= d.size
                            /\ j <= Len(RecordAt(d, offset).index)
                         THEN RecordAt(d, offset).index[j] ELSE 0],
                     hashPrecision, ub),
        good /\ offset + SizeofDouble * numIndex + CatalogEntryFixedSize <= d.size,
        ReadUint64(good /\ offset + SizeofDouble * numIndex + 8 <= d.size,
                   RecordAt(d, offset).byteStart, big),
        ReadUint64(good /\ offset + SizeofDouble * numIndex + 16 <= d.size,
                   RecordAt(d, offset).byteEnd, big))

\* std::unordered_map::emplace(key, value) on a map kept as the sequence of its
\* pairs in insertion order: a key that hashes and compares equal to a stored
\* one is not inserted
Emplace(map, key, value) ==
    IF \E k \in 1..Len(map) : /\ FIVHash(map[k].key) = FIVHash(key)
                              /\ FIVEqOutcomes(map[k].key, key) = {"true"}
    THEN map
    ELSE Append(map, [key |-> key, value |-> value])

\* the loop of readCardCatalog from entry i (0-based) on, and its body once
\* entry i has been read as e
RECURSIVE CatalogLoop(_, _, _, _, _, _, _)
CatalogStep(d, big, header, i, tableIndex, ub, e) ==
    IF e.threw THEN e
    ELSE CatalogLoop(d, big, header, i + 1, e.good,
                     Emplace(tableIndex, e.entry.index, e.entry), ub)

CatalogLoop(d, big, header, i, good, tableIndex, ub) ==
    IF i >= ToInt(header.numTables)
    THEN [threw |-> FALSE, good |-> good, value |-> [tableIndex |-> tableIndex]]
    ELSE CatalogStep(d, big, header, i, tableIndex, ub,
                     readCardCatalogEntry(
                         d, big, good,
                         ToInt(header.indexOffset)
                           + i * (CatalogEntryFixedSize + SizeofDouble * ToInt(header.numIndex)),
                         ToInt(header.numIndex), ToInt(header.hashPrecision), ub))

\* readCardCatalog: the catalog, and the state it leaves the stream in
readCardCatalog(d, big, header, ub) == CatalogLoop(d, big, header, 0, TRUE, <<>>, ub)

\* the pairs of an unordered_map in the order its iteration yields them, which
\* the hash decides: the order of insertion, or its reverse
IterationOrder(map, rev) == IF rev THEN Reverse(map) ELSE map

\* the data card that starts at byte offset of the file; bytes that are no
\* card read as zeros (a card header of no tables)
CardAt(d, offset) ==
    LET js == {j \in 1..Len(d.cards) : d.cards[j].at = offset}
    IN  IF js # {} THEN d.cards[CHOOSE j \in js : TRUE]
        ELSE [at |-> offset,
              header |-> [numTables |-> 0, headerSize |-> 0, indexOffset |-> 0,
                          cardSize |-> 0],
              tableIndex |-> <<>>, payloadAt |-> <<>>, payload |-> <<>>]

\* readDataCardHeader
readDataCardHeader(d, big, good, entry) ==
    IF Gcount(d.size, good, ToInt(entry.byteStart), SizeofCardHeader) # SizeofCardHeader
    THEN Thrown("runtime_error", "Error reading data card header from file")
    ELSE LET c == CardAt(d, ToInt(entry.byteStart)).header
             raw == [numTables |-> Bytes(c.numTables, 4),
                     headerSize |-> Bytes(c.headerSize, 4),
                     indexOffset |-> Bytes(c.indexOffset, 8),
                     cardSize |-> Bytes(c.cardSize, 8)]
             mem == IF big
                    THEN [raw EXCEPT !.numTables = swap_bytes(@),
                                     !.headerSize = swap_bytes(@),
                                     !.indexOffset = swap_bytes(@),
                                     !.cardSize = swap_bytes(@)]
                    ELSE raw
         IN  Returned([numTables |-> HostInt(mem.numTables, big),
                       headerSize |-> HostInt(mem.headerSize, big),
                       indexOffset |-> HostInt(mem.indexOffset, big),
                       cardSize |-> HostInt(mem.cardSize, big)])

\* the table index records that start at byte pos of the file (a card's table
\* index follows its header); other bytes hold no record
TableIndexAt(d, pos) ==
    LET js == {j \in 1..Len(d.cards) : d.cards[j].at + SizeofCardHeader = pos}
    IN  IF js # {} THEN d.cards[CHOOSE j \in js : TRUE].tableIndex ELSE <<>>

\* tableIndex.tableIndex[tag] = indexEntry, the map kept as the sequence of its
\* pairs: a stored tag is overwritten
Store(map, key, value) ==
    IF \E k \in 1..Len(map) : map[k].key = key
    THEN [k \in 1..Len(map) |-> IF map[k].key = key
                                THEN [key |-> key, value |-> value] ELSE map[k]]
    ELSE Append(map, [key |-> key, value |-> value])

\* one pass of the loop of readTableIndex: the i-th (0-based) record at pos
ReadTableIndexEntry(d, big, pos, i) ==
    LET recs == TableIndexAt(d, pos)
        rec == IF i + 1 <= Len(recs) THEN recs[i + 1]
               ELSE [tag |-> "", byteStart |-> 0, byteEnd |-> 0, numColumns |-> 0,
                     numRows |-> 0, size |-> 0]
        raw == [tag |-> rec.tag,
                byteStart |-> Bytes(rec.byteStart, 8),
                byteEnd |-> Bytes(rec.byteEnd, 8),
                numColumns |-> Bytes(rec.numColumns, 2),
                numRows |-> Bytes(rec.numRows, 2),
                size |-> Bytes(rec.size, 8)]
        mem == IF big
               THEN [raw EXCEPT !.numColumns = swap_bytes(@),
                                !.numRows = swap_bytes(@),
                                !.byteStart = swap_bytes(@),
                                !.byteEnd = swap_bytes(@)]
               ELSE raw
    IN  [tag |-> mem.tag,
         byteStart |-> HostInt(mem.byteStart, big),
         byteEnd |-> HostInt(mem.byteEnd, big),
         numColumns |-> HostInt(mem.numColumns, big),
         numRows |-> HostInt(mem.numRows, big),
         size |-> HostInt(mem.size, big)]

\* the loop of readTableIndex from record i (0-based) on
RECURSIVE TableIndexLoop(_, _, _, _, _, _)
TableIndexStep(d, big, pos, numTables, i, tableIndex, indexEntry) ==
    TableIndexLoop(d, big, pos, numTables, i + 1,
                   Store(tableIndex, indexEntry.tag, indexEntry))

TableIndexLoop(d, big, pos, numTables, i, tableIndex) ==
    IF i >= numTables THEN Returned([tableIndex |-> tableIndex])
    ELSE IF Gcount(d.size, TRUE, pos + i * SizeofTableIndexEntry, SizeofTableIndexEntry)
               # SizeofTableIndexEntry
    THEN Thrown("runtime_error", "Error reading table index from file")
    ELSE TableIndexStep(d, big, pos, numTables, i, tableIndex,
                        ReadTableIndexEntry(d, big, pos, i))

\* readTableIndex; the stream is good, the card header having been read
readTableIndex(d, big, entry, header) ==
    TableIndexLoop(d, big, ToInt(entry.byteStart) + ToInt(header.indexOffset),
                   ToInt(header.numTables), 0, <<>>)

\* the table payload that starts at byte pos of the file; other bytes hold none
PayloadAt(d, pos) ==
    LET ps == {p \in (1..Len(d.cards)) \X (1..2) :
                  /\ p[2] <= Len(d.cards[p[1]].payload)
                  /\ d.cards[p[1]].at + d.cards[p[1]].payloadAt[p[2]] = pos}
    IN  IF ps # {}
        THEN LET p == CHOOSE q \in ps : TRUE IN d.cards[p[1]].payload[p[2]]
        ELSE [rowValues |-> <<>>, columnValues |-> <<>>, data |-> <<>>]

\* readOPATTable from the seekg on: the buffers start at byte pos.  good1 and
\* good2 are the stream's state after the read of the row and of the column
\* values.  Only the count of the last read is checked.
ReadTablePayload(d, good, pos, numRows, numColumns, good1, good2, vsize) ==
    IF Gcount(d.size, good2, pos + (numRows + numColumns) * SizeofDouble,
              numRows * numColumns * SizeofDouble)
          # numRows * numColumns * SizeofDouble
    THEN Thrown("runtime_error", "Error reading OPAT table from file")
    ELSE [threw |-> FALSE, good |-> good2,
          value |-> OPATTable(numRows, numColumns, vsize,
                              ReadDoubles(d.size, good, pos,
                                          PayloadAt(d, pos).rowValues, numRows),
                              ReadDoubles(d.size, good1, pos + numRows * SizeofDouble,
                                          PayloadAt(d, pos).columnValues, numColumns),
                              ReadDoubles(d.size, good2,
                                          pos + (numRows + numColumns) * SizeofDouble,
                                          PayloadAt(d, pos).data, numRows * numColumns))]

\* the stream's state after the reads of the row and of the column values
AfterAxes(d, good, pos, numRows, numColumns) ==
    /\ Gcount(d.size, good, pos, numRows * SizeofDouble) = numRows * SizeofDouble
    /\ Gcount(d.size, good, pos + numRows * SizeofDouble, numColumns * SizeofDouble)
          = numColumns * SizeofDouble

\* readOPATTable.  Three buffers of numRows, numColumns and numRows * numColumns
\* doubles are filled one after the other.  m_vsize is not assigned: vsize is
\* what the member happens to hold.  good is the stream's state before and, in
\* the result, after.
readOPATTable(d, good, cardEntry, tableEntry, vsize) ==
    ReadTablePayload(d, good,
                     ToInt(cardEntry.byteStart) + ToInt(tableEntry.byteStart),
                     ToInt(tableEntry.numRows), ToInt(tableEntry.numColumns),
                     Gcount(d.size, good,
                            ToInt(cardEntry.byteStart) + ToInt(tableEntry.byteStart),
                            ToInt(tableEntry.numRows) * SizeofDouble)
                        = ToInt(tableEntry.numRows) * SizeofDouble,
                     AfterAxes(d, good,
                               ToInt(cardEntry.byteStart) + ToInt(tableEntry.byteStart),
                               ToInt(tableEntry.numRows), ToInt(tableEntry.numColumns)),
                     vsize)

\* the loop of readDataCard over the pairs of the table index from pair k on,
\* and its body once table k has been read as t; tableData.emplace(tag, table)
\* always inserts, the tags of a map being distinct
RECURSIVE TablesLoop(_, _, _, _, _, _, _)
TablesStep(d, entry, pairs, k, tableData, vsize, t) ==
    IF t.threw THEN t
    ELSE TablesLoop(d, t.good, entry, pairs, k + 1,
                    tableData @@ (pairs[k].key :> t.value), vsize)

TablesLoop(d, good, entry, pairs, k, tableData, vsize) ==
    IF k > Len(pairs) THEN [threw |-> FALSE, good |-> good, value |-> tableData]
    ELSE TablesStep(d, entry, pairs, k, tableData, vsize,
                    readOPATTable(d, good, entry, pairs[k].value, vsize))

\* readDataCard once the tables are read: the card, and the state the stream
\* is left in
DataCardOf(header, tableIndex, tables) ==
    IF tables.threw THEN tables
    ELSE [threw |-> FALSE, good |-> tables.good,
          value |-> [header |-> header, tableIndex |-> tableIndex,
                     tableData |-> tables.value]]

\* readDataCard from the loop over the table index on
DataCardTables(d, entry, rev, vsize, header, tableIndex) ==
    IF tableIndex.threw THEN tableIndex
    ELSE DataCardOf(header, tableIndex.value,
                    TablesLoop(d, TRUE, entry,
                               IterationOrder(tableIndex.value.tableIndex, rev), 1,
                               <<>>, vsize))

\* readDataCard from readTableIndex on
DataCardIndex(d, big, entry, rev, vsize, header) ==
    IF header.threw THEN header
    ELSE DataCardTables(d, entry, rev, vsize, header.value,
                        readTableIndex(d, big, entry, header.value))

\* readDataCard
readDataCard(d, big, good, entry, rev, vsize) ==
    DataCardIndex(d, big, entry, rev, vsize, readDataCardHeader(d, big, good, entry))

\* the loop of readDataCards over the pairs of the catalog from pair k on, and
\* its body once card k has been read as c; cards.emplace(indexVector, dataCard)
\* always inserts
RECURSIVE CardsLoop(_, _, _, _, _, _, _, _)
CardsStep(d, big, pairs, k, cards, rev, vsize, c) ==
    IF c.threw THEN c
    ELSE CardsLoop(d, big, c.good, pairs, k + 1,
                   Append(cards, [index |-> pairs[k].key, card |-> c.value]),
                   rev, vsize)

CardsLoop(d, big, good, pairs, k, cards, rev, vsize) ==
    IF k > Len(pairs) THEN Returned(cards)
    ELSE CardsStep(d, big, pairs, k, cards, rev, vsize,
                   readDataCard(d, big, good, pairs[k].value, rev, vsize))

\* readDataCards, on the stream as readCardCatalog left it
readDataCards(d, big, good, cardCatalog, rev, vsize) ==
    CardsLoop(d, big, good, IterationOrder(cardCatalog.tableIndex, rev), 1, <<>>,
              rev, vsize)

\* the OPAT object readOPAT returns, or the exception of readDataCards
OPATOf(header, cardCatalog, cards) ==
    IF cards.threw THEN Thrown(cards.type, cards.what)
    ELSE Returned([header |-> header, cardCatalog |-> cardCatalog, cards |-> cards.value])

\* readOPAT from readDataCards on
ReadCards(d, big, header, cardCatalog, rev, vsize) ==
    IF cardCatalog.threw THEN Thrown(cardCatalog.type, cardCatalog.what)
    ELSE OPATOf(header, cardCatalog.value,
                readDataCards(d, big, cardCatalog.good, cardCatalog.value, rev, vsize))

\* readOPAT from readCardCatalog on
ReadCatalog(d, big, header, ub, rev, vsize) ==
    IF header.threw THEN header
    ELSE IF header.value.magic # "OPAT"
    THEN Thrown("runtime_error", "Invalid OPAT file: ")
    ELSE ReadCards(d, big, header.value, readCardCatalog(d, big, header.value, ub),
                   rev, vsize)

\* readOPAT(filename) for the file d on a host of byte order big.  isOPAT is
\* what hasMagic returned, ub the build's out-of-range cast, rev the iteration
\* order of the maps, vsize the content of the unassigned m_vsize.
readOPAT(d, big, isOPAT, ub, rev, vsize) ==
    IF ~isOPAT THEN Thrown("runtime_error", "File is not a valid OPAT file: ")
    ELSE ReadCatalog(d, big, readHeader(d, big), ub, rev, vsize)

\* The files read.  Each has numIndex 1 and one card per key; each card holds
\* one table "data" of numRows x numColumns cells of size doubles, its axes
\* 0, 1, ... and its data distinct numbers.  The catalog lies before the cards
\* or after them.
DiskFile(keys, hashPrecision, numRows, numColumns, size, catalogFirst) ==
    LET n == Len(keys)
        recordSize == CatalogEntryFixedSize + SizeofDouble
        payloadAt == SizeofCardHeader + SizeofTableIndexEntry
        cardSize == payloadAt
                    + SizeofDouble * (numRows + numColumns + numRows * numColumns * size)
        catalogAt == IF catalogFirst THEN SizeofHeader ELSE SizeofHeader + n * cardSize
        cardsAt == IF catalogFirst THEN SizeofHeader + n * recordSize ELSE SizeofHeader
    IN  [size |-> SizeofHeader + n * recordSize + n * cardSize,
         header |-> [magic |-> "OPAT", version |-> 1, numTables |-> n,
                     headerSize |-> SizeofHeader, indexOffset |-> catalogAt,
                     numIndex |-> 1, hashPrecision |-> hashPrecision],
         catalogAt |-> catalogAt,
         recordSize |-> recordSize,
         catalog |-> [k \in 1..n |->
                        [index |-> keys[k],
                         byteStart |-> cardsAt + (k - 1) * cardSize,
                         byteEnd |-> cardsAt + k * cardSize]],
         cards |-> [j \in 1..n |->
                      [at |-> cardsAt + (j - 1) * cardSize,
                       header |-> [numTables |-> 1, headerSize |-> SizeofCardHeader,
                                   indexOffset |-> SizeofCardHeader,
                                   cardSize |-> cardSize],
                       tableIndex |-> <<[tag |-> "data", byteStart |-> payloadAt,
                                         byteEnd |-> cardSize,
                                         numColumns |-> numColumns,
                                         numRows |-> numRows, size |-> size]>>,
                       payloadAt |-> <<payloadAt>>,
                       payload |-> <<[rowValues |-> [r \in 1..numRows |-> Num(r - 1)],
                                      columnValues |-> [c \in 1..numColumns |-> Num(c - 1)],
                                      data |-> [k \in 1..(numRows * numColumns * size) |->
                                                   Num(10 * j + k)]]>>]]]

\* the keys of the files: one key, two keys, the same key twice, and two keys
\* (0.14 and 0.15) that differ only beyond the first decimal
DiskKeys == {<< <<0>> >>, << <<0>>, <<200>> >>, << <<200>>, <<200>> >>, << <<14>>, <<15>> >>}

\* the hashPrecision of the files' headers
DiskPrecisions == {1, UnitDigits + 1}

\* the shapes <<numRows, numColumns>> of the files' tables
DiskShapes == {<<1, 2>>, <<0, 1>>}

\* the vector sizes the table index entries declare
DiskVectorSizes == {1, 2}

DiskFiles ==
    {DiskFile(keys, hp, shape[1], shape[2], size, catalogFirst) :
        keys \in DiskKeys, hp \in DiskPrecisions, shape \in DiskShapes,
        size \in DiskVectorSizes, catalogFirst \in BOOLEAN}

\* the lengths a file is cut to: one double short of the end of the header, of
\* the catalog, and of the last card's header, table index, axes, first
\* numRows * numColumns data doubles and whole payload; and the whole file
Cuts(f) ==
    LET last == f.cards[Len(f.cards)]
        e == last.tableIndex[1]
        p == last.at + last.payloadAt[1]
        ends == {SizeofHeader,
                 f.catalogAt + Len(f.catalog) * f.recordSize,
                 last.at + SizeofCardHeader,
                 p,
                 p + SizeofDouble * (e.numRows + e.numColumns),
                 p + SizeofDouble * (e.numRows + e.numColumns + e.numRows * e.numColumns),
                 last.at + e.byteEnd}
    IN  {f.size} \cup {x - SizeofDouble : x \in ends}

NoDisk == [size |-> 0]

ReadCall(op, out) == [op |-> op, out |-> out]

\* a file on disk, on a host of either byte order, not yet read
ReaderInit ==
    /\ \E f \in DiskFiles : \E c \in Cuts(f) : disk = [f EXCEPT !.size = c]
    /\ bigEndian \in BOOLEAN
    /\ call = NoCall

\* opat::readOPAT(filename)
ReadOPAT(isOPAT, ub, rev, vsize) ==
    /\ call' = ReadCall("readOPAT", readOPAT(disk, bigEndian, isOPAT, ub, rev, vsize))
    /\ UNCHANGED <<keyVars, readerVars, threadVars, wrapperVars,
                   tableVars, modeVars, opat, m_indexVectors,
                   m_simplices, m_simplexAdjacency, m_lastFoundSimplex>>

\* opat::readHeader(file) on the file just opened
ReadHeader ==
    /\ call' = ReadCall("readHeader", readHeader(disk, bigEndian))
    /\ UNCHANGED <<keyVars, readerVars, threadVars, wrapperVars,
                   tableVars, modeVars, opat, m_indexVectors,
                   m_simplices, m_simplexAdjacency, m_lastFoundSimplex>>

\* opat::readCardCatalog(file, header) with the header readHeader returned
ReadCardCatalog(ub) ==
    /\ ~readHeader(disk, bigEndian).threw
    /\ call' = ReadCall("readCardCatalog",
                        readCardCatalog(disk, bigEndian,
                                        readHeader(disk, bigEndian).value, ub))
    /\ UNCHANGED <<keyVars, readerVars, threadVars, wrapperVars,
                   tableVars, modeVars, opat, m_indexVectors,
                   m_simplices, m_simplexAdjacency, m_lastFoundSimplex>>

ReaderNext ==
    \/ \E isOPAT \in hasMagic(disk), rev \in BOOLEAN, vsize \in UnsetSizes :
          ReadOPAT(isOPAT, "saturate", rev, vsize)
    \/ ReadHeader
    \/ ReadCardCatalog("saturate")

-----------------------------------------------------------------------------
(* OPATTable and its operations (opatIO.h, opatIO.cpp).  N_R, N_C and the    *)
(* members of Slice are uint32_t: a value 2^32 - k that a subtraction wraps   *)
(* to is kept as the integer -k, which is congruent to it.  Every table here  *)
(* owns its three buffers, as the tables of readOPATTable, slice, getRow and  *)
(* getColumn do.                                                              *)

Slice(start, end) == [start |-> start, end |-> end]

\* OPATTable::getData(row, column); with unsigned arguments the second test
\* (row < 0 || column < 0) never holds
getData(t, row, column) ==
    IF row >= t.N_R \/ column >= t.N_C
    THEN Thrown("out_of_range", "Index out of range")
    ELSE Returned(t.data[row * t.N_C + column + 1])

\* std::make_unique<double[]>(n): n zeros
Zeros(n) == [i \in 1..n |-> Num(0)]

\* a slice that copies from the table's first row and column whatever the
\* ranges' starts
SliceFromOrigin(t, rowSlice, colSlice, nr, nc, vsize) ==
    OPATTable(nr, nc, vsize,
              [i \in 1..nr |-> t.rowValues[i]],
              [j \in 1..nc |-> t.columnValues[j]],
              [k \in 1..(nr * nc) |-> getData(t, (k - 1) \div nc, (k - 1) % nc).value])

\* the buffers slice fills for ranges that did not wrap.  The two axes are
\* assigned inside the inner loop: an axis stays zero where that loop never
\* runs.
SlicedTable(t, rowSlice, colSlice, nr, nc, vsize) ==
    OPATTable(nr, nc, vsize,
              [i \in 1..nr |-> IF nc > 0 THEN t.rowValues[rowSlice.start + i]
                               ELSE Zeros(nr)[i]],
              [j \in 1..nc |-> IF nr > 0 THEN t.columnValues[colSlice.start + j]
                               ELSE Zeros(nc)[j]],
              [k \in 1..(nr * nc) |->
                  getData(t, rowSlice.start + ((k - 1) \div nc),
                          colSlice.start + ((k - 1) % nc)).value])

\* OPATTable::slice(rowSlice, colSlice).  A range with start > end passes the
\* test; end - start then wraps to 2^32 - k, the table asks for buffers of that
\* many doubles, and alloc says whether the allocation throws std::bad_alloc
\* or yields the zeros, of which the model keeps none; the loops do not run.
\* m_vsize of the result is never assigned: vsize is what it holds.
slice(t, rowSlice, colSlice, alloc, vsize) ==
    IF \/ rowSlice.start >= t.N_R \/ rowSlice.end > t.N_R
       \/ colSlice.start >= t.N_C \/ colSlice.end > t.N_C
    THEN Thrown("out_of_range", "Slice out of range")
    ELSE IF rowSlice.end - rowSlice.start < 0 \/ colSlice.end - colSlice.start < 0
    THEN IF alloc = "bad_alloc" THEN Thrown("bad_alloc", "std::bad_alloc")
         ELSE Returned(OPATTable(rowSlice.end - rowSlice.start,
                                 colSlice.end - colSlice.start, vsize,
                                 <<>>, <<>>, <<>>))
    ELSE Returned(SlicedTable(t, rowSlice, colSlice, rowSlice.end - rowSlice.start,
                              colSlice.end - colSlice.start, vsize))

\* a getRow that copies the cells of the first row whatever the row asked for
getFirstRow(t, row, oob, vsize) ==
    Returned(OPATTable(1, t.N_C, vsize,
                       <<IF row >= t.N_R THEN Garbage ELSE t.rowValues[row + 1]>>,
                       [i \in 1..t.N_C |-> t.columnValues[i]],
                       [i \in 1..t.N_C |-> IF t.N_R = 0 THEN Garbage
                                            ELSE getData(t, 0, i - 1).value]))

\* OPATTable::getRow(row).  rowValues[row] is read before any test of row: with
\* row >= N_R the read is out of bounds, undefined (oob says whether the
\* program goes on with some value or crashes); getData then throws, unless
\* the table has no column.
getRow(t, row, oob, vsize) ==
    IF row >= t.N_R /\ oob = "crash" THEN Thrown("crash", "")
    ELSE IF row >= t.N_R /\ t.N_C > 0 THEN getData(t, row, 0)
    ELSE Returned(OPATTable(1, t.N_C, vsize,
                            <<IF row >= t.N_R THEN Garbage ELSE t.rowValues[row + 1]>>,
                            [i \in 1..t.N_C |-> t.columnValues[i]],
                            [i \in 1..t.N_C |-> getData(t, row, i - 1).value]))

\* OPATTable::getColumn(column), symmetric
getColumn(t, column, oob, vsize) ==
    IF column >= t.N_C /\ oob = "crash" THEN Thrown("crash", "")
    ELSE IF column >= t.N_C /\ t.N_R > 0 THEN getData(t, 0, column)
    ELSE Returned(OPATTable(t.N_R, 1, vsize,
                            [i \in 1..t.N_R |-> t.rowValues[i]],
                            <<IF column >= t.N_C THEN Garbage
                              ELSE t.columnValues[column + 1]>>,
                            [i \in 1..t.N_R |-> getData(t, i - 1, column).value]))

\* the largest row, column and slice bound the operations are called with
MaxIndex == 2

Indices == 0..MaxIndex

\* the shapes <<N_R, N_C>> of the tables operated on
TableShapes == {<<1, 2>>, <<2, 2>>, <<0, 1>>}

\* a table as readOPATTable returns it: axes and cells all different, one cell
\* NaN where the table has four cells
LoadedTable(nr, nc, vsize) ==
    OPATTable(nr, nc, vsize,
              [r \in 1..nr |-> Num(100 + r)],
              [c \in 1..nc |-> Num(200 + c)],
              [k \in 1..(nr * nc) |-> IF nr * nc = 4 /\ k = 3 THEN NaN ELSE Num(10 + k)])

\* the outcomes of an allocation too large for the machine, and of a read out
\* of bounds
AllocOutcomes == {"bad_alloc", "zeros"}

ReadOutcomes == {"value", "crash"}

TableCall(op, args, out) == [op |-> op, args |-> args, out |-> out]

TableInit ==
    /\ \E shape \in TableShapes, vsize \in UnsetSizes :
          table = LoadedTable(shape[1], shape[2], vsize)
    /\ call = NoCall

\* table.slice(rowSlice, colSlice)
SliceTable(rowSlice, colSlice, alloc, vsize) ==
    /\ call' = TableCall("slice", <<rowSlice, colSlice>>,
                         slice(table, rowSlice, colSlice, alloc, vsize))
    /\ UNCHANGED <<tableVars, keyVars, readerVars, threadVars, wrapperVars,
                   modeVars, opat, m_indexVectors,
                   m_simplices, m_simplexAdjacency, m_lastFoundSimplex>>

\* table.getRow(row)
GetRow(row, oob, vsize) ==
    /\ call' = TableCall("getRow", <<row>>, getRow(table, row, oob, vsize))
    /\ UNCHANGED <<tableVars, keyVars, readerVars, threadVars, wrapperVars,
                   modeVars, opat, m_indexVectors,
                   m_simplices, m_simplexAdjacency, m_lastFoundSimplex>>

\* table.getColumn(column)
GetColumn(column, oob, vsize) ==
    /\ call' = TableCall("getColumn", <<column>>, getColumn(table, column, oob, vsize))
    /\ UNCHANGED <<tableVars, keyVars, readerVars, threadVars, wrapperVars,
                   modeVars, opat, m_indexVectors,
                   m_simplices, m_simplexAdjacency, m_lastFoundSimplex>>

\* table.getData(row, column), table(row, column)
GetData(row, column) ==
    /\ call' = TableCall("getData", <<row, column>>, getData(table, row, column))
    /\ UNCHANGED <<tableVars, keyVars, readerVars, threadVars, wrapperVars,
                   modeVars, opat, m_indexVectors,
                   m_simplices, m_simplexAdjacency, m_lastFoundSimplex>>

\* the caller goes on with the table the last operation returned
UseResult ==
    /\ call.op \in {"slice", "getRow", "getColumn"}
    /\ ~call.out.threw
    /\ call.out.value.N_R >= 0 /\ call.out.value.N_C >= 0
    /\ table' = call.out.value
    /\ call' = NoCall
    /\ UNCHANGED <<keyVars, readerVars, threadVars, wrapperVars, modeVars, opat, m_indexVectors,
                   m_simplices, m_simplexAdjacency, m_lastFoundSimplex>>

TableNext ==
    \/ \E rs, re, cs, ce \in Indices, alloc \in AllocOutcomes, vsize \in UnsetSizes :
          SliceTable(Slice(rs, re), Slice(cs, ce), alloc, vsize)
    \/ \E row \in Indices, oob \in ReadOutcomes, vsize \in UnsetSizes :
          GetRow(row, oob, vsize)
    \/ \E column \in Indices, oob \in ReadOutcomes, vsize \in UnsetSizes :
          GetColumn(column, oob, vsize)
    \/ \E row, column \in Indices : GetData(row, column)
    \/ UseResult

-----------------------------------------------------------------------------
(* The life of a TableLattice: its constructors, the interpolation type, and *)
(* get (tableLattice.h, tableLattice.cpp)                                    *)

\* enum class InterpolationType
InterpolationTypes == {"Linear", "Quadratic", "Cubic"}

LatticeCall(op, arg, out) ==
    [op |-> op, arg |-> arg, threw |-> out.threw,
     type |-> IF out.threw THEN out.type ELSE "",
     what |-> IF out.threw THEN out.what ELSE "",
     value |-> IF out.threw THEN "" ELSE out.value]

\* a setter that stores whatever type it is given
storeInterpolationType(interpolationType) == Returned(interpolationType)

\* TableLattice::setInterpolationType: the exception, or the value assigned to
\* m_interpolationType
setInterpolationType(interpolationType) ==
    IF interpolationType # "Linear"
    THEN Thrown("runtime_error", "Only Linear interpolation is currently implemented.")
    ELSE Returned(interpolationType)

\* TableLattice::getInterpolationType
getInterpolationType(type) == Returned(type)

\* a loaded file, before a TableLattice is built on it
LatticeInit ==
    /\ \E scn \in Scenarios, hp \in HeaderPrecisions, kind \in FileKinds :
          /\ Loadable(scn, hp)
          /\ opat = LoadedFile(scn, hp, kind)
    /\ m_indexVectors = <<>>
    /\ m_simplices = <<>>
    /\ m_simplexAdjacency = <<>>
    /\ m_lastFoundSimplex = NoSimplex
    /\ call = NoCall

\* initialize() and buildDelaunay() with qhull's triangulation tri
Built(tri) ==
    /\ IsDelaunay(ScenarioOf(opat).numIndex, ScenarioOf(opat).points, tri)
    /\ m_indexVectors' = [i \in 1..Len(opat.cards) |-> opat.cards[i].index]
    /\ m_simplices' = tri
    /\ m_simplexAdjacency' = BuildAdjacency(tri)
    /\ m_lastFoundSimplex' = NoSimplex

\* TableLattice(opat): m_interpolationType keeps its default member initializer
Construct1(tri) ==
    /\ ~constructed
    /\ Built(tri)
    /\ m_interpolationType' = "Linear"
    /\ constructed' = TRUE
    /\ call' = LatticeCall("TableLattice", "default", Returned(""))
    /\ UNCHANGED <<opat, keyVars, readerVars, threadVars, wrapperVars, tableVars>>

\* TableLattice(opat, interpolationType): the member is assigned, then tested;
\* when the constructor throws no object comes to exist
Construct2(interpolationType, tri) ==
    /\ ~constructed
    /\ IF interpolationType # "Linear"
       THEN /\ call' = LatticeCall("TableLattice", interpolationType,
                                   Thrown("runtime_error",
                                          "Only Linear interpolation is currently implemented."))
            /\ UNCHANGED <<modeVars, m_indexVectors, m_simplices, m_simplexAdjacency,
                           m_lastFoundSimplex>>
       ELSE /\ Built(tri)
            /\ m_interpolationType' = interpolationType
            /\ constructed' = TRUE
            /\ call' = LatticeCall("TableLattice", interpolationType, Returned(""))
    /\ UNCHANGED <<opat, keyVars, readerVars, threadVars, wrapperVars, tableVars>>

\* lattice.setInterpolationType(interpolationType)
SetInterpolationType(interpolationType) ==
    /\ constructed
    /\ call' = LatticeCall("setInterpolationType", interpolationType,
                           setInterpolationType(interpolationType))
    /\ m_interpolationType' = IF setInterpolationType(interpolationType).threw
                              THEN m_interpolationType
                              ELSE setInterpolationType(interpolationType).value
    /\ UNCHANGED <<constructed, opat, m_indexVectors, m_simplices, m_simplexAdjacency,
                   m_lastFoundSimplex, keyVars, readerVars, threadVars, wrapperVars, tableVars>>

\* lattice.getInterpolationType()
GetInterpolationType ==
    /\ constructed
    /\ call' = LatticeCall("getInterpolationType", "",
                           getInterpolationType(m_interpolationType))
    /\ UNCHANGED <<modeVars, opat, m_indexVectors, m_simplices, m_simplexAdjacency,
                   m_lastFoundSimplex, keyVars, readerVars, threadVars, wrapperVars, tableVars>>

\* lattice.get(q) on the constructed lattice
LatticeGet(qv) == constructed /\ Get(qv)

LatticeNext ==
    \/ \E tri \in ScenarioOf(opat).triangulations : Construct1(tri)
    \/ \E interpolationType \in InterpolationTypes, tri \in ScenarioOf(opat).triangulations :
          Construct2(interpolationType, tri)
    \/ \E interpolationType \in InterpolationTypes : SetInterpolationType(interpolationType)
    \/ GetInterpolationType
    \/ \E qv \in ScenarioOf(opat).queries : LatticeGet(qv)

-----------------------------------------------------------------------------
(* The walk over adjacency tables of any contents                            *)

\* what an entry of an adjacency table can hold: no neighbor, the ID of a
\* simplex, or an ID past the last simplex
AdjacencyEntries(simplices) == {NO_NEIGHBOR_SENTINEL} \cup (0..Len(simplices))

\* adjacency tables of the shape buildDelaunay gives them and of any contents:
\* in table f every face of simplex i leads to f[i], so that the walk can
\* return to a simplex it has left, leave the triangulation, or stop at a hull
\* face that is none
CorruptAdjacency(simplices) ==
    {[i \in 1..Len(simplices) |-> [k \in 1..Len(simplices[i]) |-> f[i]]] :
        f \in [1..Len(simplices) -> AdjacencyEntries(simplices)]}

\* a lattice on a loaded file whose adjacency table is the one buildDelaunay
\* derives, or a corrupt one
WalkInit ==
    \E scn \in Scenarios, hp \in HeaderPrecisions :
        /\ Loadable(scn, hp)
        /\ \E tri \in scn.triangulations :
              /\ IsDelaunay(scn.numIndex, scn.points, tri)
              /\ opat = LoadedFile(scn, hp, PlainFile)
              /\ m_indexVectors = [i \in 1..Len(scn.points) |->
                                      LoadedFile(scn, hp, PlainFile).cards[i].index]
              /\ m_simplices = tri
              /\ m_simplexAdjacency \in {BuildAdjacency(tri)} \cup CorruptAdjacency(tri)
              /\ m_lastFoundSimplex = NoSimplex
              /\ call = NoCall

WalkNext == \E qv \in ScenarioOf(opat).queries : Get(qv)

-----------------------------------------------------------------------------
(* get calls of several threads on one TableLattice                          *)

\* the threads that call get
NumThreads == 2

Threads == 1..NumThreads

\* a get call of one thread: where it stands, its query, the simplex and
\* weights its own walk computed (the locals currentSimplexID and
\* barycentricWeights), the Simplex it got back from findContainingSimplex,
\* and the outcome of the call
ThreadCall(pc, arg, id, weights, ret, out) ==
    [pc |-> pc, arg |-> arg, ID |-> id, barycentricWeights |-> weights, ret |-> ret,
     threw |-> out.threw, type |-> out.type, card |-> out.card]

NoOutcome == GetOutcome(FALSE, "", "", NoCard, <<>>, NoSimplex)

IdleThread == ThreadCall("idle", <<>>, NO_NEIGHBOR_SENTINEL, Weights(<<>>, 1), NoSimplex, NoOutcome)

\* a lattice built on a loaded file, and no call of any thread begun
ThreadsInit ==
    \E scn \in Scenarios, hp \in HeaderPrecisions :
        /\ Loadable(scn, hp)
        /\ \E tri \in scn.triangulations :
              /\ IsDelaunay(scn.numIndex, scn.points, tri)
              /\ opat = LoadedFile(scn, hp, PlainFile)
              /\ m_indexVectors = [i \in 1..Len(scn.points) |->
                                      LoadedFile(scn, hp, PlainFile).cards[i].index]
              /\ m_simplices = tri
              /\ m_simplexAdjacency = BuildAdjacency(tri)
              /\ m_lastFoundSimplex = NoSimplex
              /\ call = NoCall
              /\ threads = [t \in Threads |-> IdleThread]

\* thread t calls get(q): validation, the choice of the starting simplex from
\* m_lastFoundSimplex.ID, and the walk, up to the point where the walk has
\* found the simplex and is about to store it
ThreadWalk(t, qv) ==
    /\ threads[t].pc = "idle"
    /\ LET found == findContainingSimplex(opat, m_indexVectors, m_simplices,
                                          m_simplexAdjacency, m_lastFoundSimplex,
                                          QueryKey(qv))
       IN  threads' = [threads EXCEPT ![t] =
               IF found.threw
               THEN ThreadCall("done", qv, NO_NEIGHBOR_SENTINEL, Weights(<<>>, 1), NoSimplex,
                               GetOutcome(TRUE, found.type, found.what, NoCard, <<>>,
                                          NoSimplex))
               ELSE ThreadCall("storeID", qv, found.ID, found.barycentricWeights,
                               NoSimplex, NoOutcome)]
    /\ UNCHANGED <<keyVars, readerVars, wrapperVars, tableVars, modeVars, engineVars>>

\* m_lastFoundSimplex.ID = currentSimplexID;
ThreadStoreID(t) ==
    /\ threads[t].pc = "storeID"
    /\ m_lastFoundSimplex' = [m_lastFoundSimplex EXCEPT !.ID = threads[t].ID]
    /\ threads' = [threads EXCEPT ![t].pc = "storeWeights"]
    /\ UNCHANGED <<keyVars, readerVars, wrapperVars, tableVars, modeVars, opat,
                   m_indexVectors, m_simplices, m_simplexAdjacency, call>>

\* m_lastFoundSimplex.barycentricWeights = barycentricWeights;
ThreadStoreWeights(t) ==
    /\ threads[t].pc = "storeWeights"
    /\ m_lastFoundSimplex' = [m_lastFoundSimplex EXCEPT
                                 !.barycentricWeights = threads[t].barycentricWeights]
    /\ threads' = [threads EXCEPT ![t].pc = "returnID"]
    /\ UNCHANGED <<keyVars, readerVars, wrapperVars, tableVars, modeVars, opat,
                   m_indexVectors, m_simplices, m_simplexAdjacency, call>>

\* return m_lastFoundSimplex; the copy of the member ID
ThreadReturnID(t) ==
    /\ threads[t].pc = "returnID"
    /\ threads' = [threads EXCEPT ![t].pc = "returnWeights",
                                  ![t].ret.ID = m_lastFoundSimplex.ID]
    /\ UNCHANGED <<keyVars, readerVars, wrapperVars, tableVars, modeVars, engineVars>>

\* return m_lastFoundSimplex; the copy of the member barycentricWeights, and the
\* rest of get with the Simplex returned
ThreadReturnWeights(t) ==
    /\ threads[t].pc = "returnWeights"
    /\ LET ret == [threads[t].ret EXCEPT
                      !.barycentricWeights = m_lastFoundSimplex.barycentricWeights]
           out == GetFromAnchor(opat, m_indexVectors, At(m_simplices, ret.ID),
                                ret.barycentricWeights,
                                OPATGet(opat, At(m_indexVectors, At(m_simplices, ret.ID)[1])),
                                <<>>, ret)
       IN  threads' = [threads EXCEPT ![t] =
               ThreadCall("done", threads[t].arg, threads[t].ID,
                          threads[t].barycentricWeights, ret, out)]
    /\ UNCHANGED <<keyVars, readerVars, wrapperVars, tableVars, modeVars, engineVars>>

ThreadsNext ==
    \E t \in Threads :
        \/ \E qv \in ScenarioOf(opat).queries : ThreadWalk(t, qv)
        \/ ThreadStoreID(t)
        \/ ThreadStoreWeights(t)
        \/ ThreadReturnID(t)
        \/ ThreadReturnWeights(t)

-----------------------------------------------------------------------------
(* The C wrapper (fextern.cpp): one loaded file behind three functions.      *)
(* loaded_opat_file is "nullptr" or "object"; the object it points to is     *)
(* held in opat.                                                             *)

\* the names given to load_opat_file_c
Filenames == {"line.opat", "fan.opat", "missing.opat"}

\* opat::readOPAT(filename): the object of a file that loads, or the exception
\* of a file that cannot be opened
ReadByName(filename) ==
    IF filename = "line.opat"
    THEN Returned(LoadedFile(LineScenario, DefaultPrecision, PlainFile))
    ELSE IF filename = "fan.opat"
    THEN Returned(LoadedFile(FanScenario, DefaultPrecision, PlainFile))
    ELSE Thrown("runtime_error", "Could not open file")

\* what opat holds when loaded_opat_file points to no object
NoFile ==
    [header |-> [numIndex |-> 0, hashPrecision |-> 0, numTables |-> 0], cards |-> <<>>]

\* the index vectors and tags given to get_opat_table_c
WrapperVectors == {<<>>, <<-1>>, <<0>>, <<1>>, <<2>>, <<4>>, <<0, 0>>, <<15, 15>>}

WrapperTags == {"data", "aux"}

\* struct OPATTable_C.  A pointer is "nullptr", "table" (a buffer of the table
\* found in the loaded file) or "wild" (whatever an undefined read produced)
OPATTable_C(rowValuesPtr, colValuesPtr, dataPtr, numRows, numCols, errorCode, errorMessage) ==
    [rowValuesPtr |-> rowValuesPtr, colValuesPtr |-> colValuesPtr, dataPtr |-> dataPtr,
     numRows |-> numRows, numCols |-> numCols, errorCode |-> errorCode,
     errorMessage |-> errorMessage]

\* result_out as the catch blocks of get_opat_table_c leave it
Failed_C(type, what) ==
    OPATTable_C("nullptr", "nullptr", "nullptr", 0, 0, -1,
                IF type = "out_of_range" THEN "Table not found in OPAT file." ELSE what)

\* a call of a wrapper function: its arguments, what it returned (ret for
\* load_opat_file_c, result for get_opat_table_c), whether it read through
\* loaded_opat_file, and whether the process ended in it
WrapperCall(op, arg, tag, ret, result, deref, crashed) ==
    [op |-> op, arg |-> arg, tag |-> tag, ret |-> ret, result |-> result,
     deref |-> deref, crashed |-> crashed]

NoResult == OPATTable_C("nullptr", "nullptr", "nullptr", 0, 0, 0, "")

\* the process has ended in a wrapper call
Crashed == call.op = "get_opat_table_c" /\ call.crashed

\* what loaded_opat_file->get(fiv) can do when loaded_opat_file is null: the
\* call reads the members of an object that does not exist, which is undefined
NullDerefOutcomes == {"crash", "thrown", "returned"}

\* the try block of get_opat_table_c from loaded_opat_file->get(fiv) on, with
\* a file loaded
GetLoadedTable(file, fiv, tag) ==
    LET card == OPATGet(file, fiv)
        t == IF card.threw THEN card ELSE DataCardGet(card.value, tag)
    IN  IF t.threw THEN Failed_C(t.type, t.what)
        ELSE OPATTable_C("table", "table", "table", t.value.N_R, t.value.N_C, 0, "")

\* the variables of the engine that the wrapper does not use
wrapperIdle ==
    <<keyVars, readerVars, threadVars, tableVars, modeVars, m_indexVectors,
      m_simplices, m_simplexAdjacency, m_lastFoundSimplex>>

\* load_opat_file_c(filename)
load_opat_file_c(filename) ==
    /\ ~Crashed
    /\ UNCHANGED wrapperIdle
    /\ IF loaded_opat_file # "nullptr" /\ last_loaded_filename = filename
       THEN /\ UNCHANGED <<wrapperVars, opat>>
            /\ call' = WrapperCall("load_opat_file_c", filename, "", 0, NoResult,
                                   FALSE, FALSE)
       ELSE LET r == ReadByName(filename)
            IN  IF ~r.threw
                THEN /\ loaded_opat_file' = "object"
                     /\ opat' = r.value
                     /\ last_loaded_filename' = filename
                     /\ UNCHANGED last_error_message
                     /\ call' = WrapperCall("load_opat_file_c", filename, "", 0,
                                            NoResult, FALSE, FALSE)
                ELSE /\ loaded_opat_file' = "nullptr"
                     /\ opat' = NoFile
                     /\ last_loaded_filename' = ""
                     /\ last_error_message' = r.what
                     /\ call' = WrapperCall("load_opat_file_c", filename, "", -1,
                                            NoResult, FALSE, FALSE)

\* free_opat_file_c()
free_opat_file_c ==
    /\ ~Crashed
    /\ UNCHANGED wrapperIdle
    /\ IF loaded_opat_file # "nullptr"
       THEN /\ loaded_opat_file' = "nullptr"
            /\ opat' = NoFile
            /\ last_loaded_filename' = ""
            /\ last_error_message' = ""
       ELSE UNCHANGED <<wrapperVars, opat>>
    /\ call' = WrapperCall("free_opat_file_c", "", "", 0, NoResult, FALSE, FALSE)

\* get_opat_table_c(index_vector_ptr, index_vector_size, table_tag, result_out).
\* The check of loaded_opat_file sets errorCode and errorMessage and goes on
\* into the try block: the key is constructed, and loaded_opat_file->get(fiv)
\* is called whether there is a file or not.
get_opat_table_c(index_vec, table_tag, ub, nd) ==
    /\ ~Crashed
    /\ UNCHANGED <<wrapperIdle, wrapperVars, opat>>
    /\ LET fiv == FIVConstruct(index_vec, 8, ub)
       IN  call' =
             IF fiv.threw
             THEN WrapperCall("get_opat_table_c", index_vec, table_tag, 0,
                              Failed_C(fiv.type, fiv.what), FALSE, FALSE)
             ELSE IF loaded_opat_file = "nullptr"
             THEN IF nd = "crash"
                  THEN WrapperCall("get_opat_table_c", index_vec, table_tag, 0,
                                   NoResult, TRUE, TRUE)
                  ELSE IF nd = "thrown"
                  THEN WrapperCall("get_opat_table_c", index_vec, table_tag, 0,
                                   Failed_C("runtime_error",
                                            "Card not found for the given index."),
                                   TRUE, FALSE)
                  ELSE WrapperCall("get_opat_table_c", index_vec, table_tag, 0,
                                   OPATTable_C("wild", "wild", "wild", 0, 0, 0, ""),
                                   TRUE, FALSE)
             ELSE WrapperCall("get_opat_table_c", index_vec, table_tag, 0,
                              GetLoadedTable(opat, fiv.value, table_tag), TRUE, FALSE)

WrapperNext ==
    \/ \E filename \in Filenames : load_opat_file_c(filename)
    \/ free_opat_file_c
    \/ \E index_vec \in WrapperVectors, table_tag \in WrapperTags,
          ub \in UBOutcomes, nd \in NullDerefOutcomes :
          get_opat_table_c(index_vec, table_tag, ub, nd)

-----------------------------------------------------------------------------
(* Specifications *)

\* no file on disk is being read
ReaderIdle ==
    /\ disk = NoDisk
    /\ bigEndian = FALSE

\* no table object is operated on by itself
TableIdle == table = [N_R |-> 0]

\* no TableLattice exists
NoLattice ==
    /\ constructed = FALSE
    /\ m_interpolationType = "none"

\* no file is loaded
NoEngine ==
    /\ opat = [header |-> [numIndex |-> 0, hashPrecision |-> 0, numTables |-> 0],
               cards |-> <<>>]
    /\ m_indexVectors = <<>>
    /\ m_simplices = <<>>
    /\ m_simplexAdjacency = <<>>
    /\ m_lastFoundSimplex = NoSimplex

\* no get call is running
NoThreads == threads = <<>>

\* the statics of fextern.cpp at program start
NoWrapper ==
    /\ loaded_opat_file = "nullptr"
    /\ last_loaded_filename = ""
    /\ last_error_message = ""

Init ==
    /\ EngineInit
    /\ KeyInit
    /\ NoThreads
    /\ NoWrapper
    /\ ReaderIdle
    /\ TableIdle
    /\ constructed = TRUE
    /\ m_interpolationType = "Linear"

Next == EngineNext

\* the engine over a loaded file
Spec == Init /\ [][Next]_vars

KeySpecInit ==
    /\ KeyInit
    /\ NoThreads
    /\ NoWrapper
    /\ NoEngine
    /\ call = NoCall
    /\ ReaderIdle
    /\ TableIdle
    /\ NoLattice

\* one FloatIndexVector object under its public operations
SpecKey == KeySpecInit /\ [][KeyNext]_vars

SpecReadInit ==
    /\ ReaderInit
    /\ KeyInit
    /\ NoThreads
    /\ NoWrapper
    /\ NoEngine
    /\ TableIdle
    /\ NoLattice

\* the reader on one file
SpecRead == SpecReadInit /\ [][ReaderNext]_vars

SpecTableInit ==
    /\ TableInit
    /\ KeyInit
    /\ NoThreads
    /\ NoWrapper
    /\ NoEngine
    /\ ReaderIdle
    /\ NoLattice

\* one OPATTable under its operations
SpecTable == SpecTableInit /\ [][TableNext]_vars

SpecLatticeInit ==
    /\ LatticeInit
    /\ NoLattice
    /\ KeyInit
    /\ NoThreads
    /\ NoWrapper
    /\ ReaderIdle
    /\ TableIdle

\* a TableLattice from its construction on
SpecLattice == SpecLatticeInit /\ [][LatticeNext]_vars

SpecWalkInit ==
    /\ WalkInit
    /\ KeyInit
    /\ NoThreads
    /\ NoWrapper
    /\ ReaderIdle
    /\ TableIdle
    /\ constructed = TRUE
    /\ m_interpolationType = "Linear"

\* get on a lattice whose adjacency table may be corrupt
SpecWalk == SpecWalkInit /\ [][WalkNext]_vars

SpecThreadsInit ==
    /\ ThreadsInit
    /\ KeyInit
    /\ NoWrapper
    /\ ReaderIdle
    /\ TableIdle
    /\ constructed = TRUE
    /\ m_interpolationType = "Linear"

\* get calls of two threads on one lattice
SpecThreads == SpecThreadsInit /\ [][ThreadsNext]_vars

SpecWrapperInit ==
    /\ KeyInit
    /\ NoThreads
    /\ NoWrapper
    /\ NoEngine
    /\ call = NoCall
    /\ ReaderIdle
    /\ TableIdle
    /\ NoLattice

\* calls of the C wrapper's functions in any order
SpecWrapper == SpecWrapperInit /\ [][WrapperNext]_vars

-----------------------------------------------------------------------------
(* Interpolation properties (specification Spec) *)

\* C1: exactness at a stored vertex.  After get(k) for a stored key k, from any
\* warm-start state, the call has returned a card with the tags of k's card
\* whose tables equal the stored ones cell for cell, a cell being NaN exactly
\* when the stored cell is.
C1_ExactAtStoredVertex ==
    \A i \in 1..Len(opat.cards) :
        (call.op = "get" /\ call.arg = opat.cards[i].index.m_vector) =>
            /\ ~call.threw
            /\ DOMAIN call.card.tableData = DOMAIN opat.cards[i].card.tableData
            /\ \A tag \in DOMAIN opat.cards[i].card.tableData :
                  LET got == call.card.tableData[tag].data
                      stored == opat.cards[i].card.tableData[tag].data
                  IN  /\ Len(got) = Len(stored)
                      /\ \A idx \in 1..Len(stored) : CellEq(got[idx], stored[idx])

\* stored keys i and j (1-based) differ in exactly one coordinate and qv is
\* their midpoint
IsMidpoint(qv, i, j) ==
    LET ka == opat.cards[i].index.m_vector
        kb == opat.cards[j].index.m_vector
    IN  /\ Len(qv) = Len(ka)
        /\ Cardinality({d \in 1..Len(ka) : ka[d] # kb[d]}) = 1
        /\ \A d \in 1..Len(ka) : 2 * qv[d] = ka[d] + kb[d]

\* r is the arithmetic mean of the numbers x and y
IsMean(r, x, y) ==
    /\ r.kind = "num" /\ x.kind = "num" /\ y.kind = "num"
    /\ 2 * r.num * x.den * y.den = r.den * (x.num * y.den + y.num * x.den)

\* C2: midpoint linearity.  For any two stored keys that differ in exactly one
\* coordinate, get of their midpoint returns tables of the stored size that
\* hold, cell by cell, the mean of the two cards' cells, and NaN where either
\* is NaN.
C2_MidpointOfAnyPair ==
    \A i, j \in 1..Len(opat.cards) :
        (call.op = "get" /\ IsMidpoint(call.arg, i, j)) =>
            /\ ~call.threw
            /\ \A tag \in DOMAIN opat.cards[i].card.tableData :
                  /\ tag \in DOMAIN opat.cards[j].card.tableData
                  /\ tag \in DOMAIN call.card.tableData
                  /\ Len(call.card.tableData[tag].data)
                        = Len(opat.cards[i].card.tableData[tag].data)
                  /\ \A idx \in 1..Len(opat.cards[i].card.tableData[tag].data) :
                        LET x == opat.cards[i].card.tableData[tag].data[idx]
                            y == opat.cards[j].card.tableData[tag].data[idx]
                            r == call.card.tableData[tag].data[idx]
                        IN  IF x.kind = "nan" \/ y.kind = "nan"
                            THEN r.kind = "nan" ELSE IsMean(r, x, y)

\* the exact barycentric weights of the vector qv in simplex s (1-based)
WeightsIn(s, qv) ==
    calculateBarycentricWeights(
        opat.header.numIndex, QueryKey(qv),
        [k \in 1..Len(m_simplices[s]) |-> At(m_indexVectors, m_simplices[s][k])]).value

OutOfHullError ==
    /\ call.threw
    /\ call.type = "out_of_range"
    /\ call.what = "Query point is outside the convex hull"

BeyondTolerance(s, qv) ==
    \E k \in 1..Len(m_simplices[s]) :
        BelowNegTol(WeightsIn(s, qv).nums[k], WeightsIn(s, qv).den)

OutsideAxis(qv, d) ==
    LET stored == {opat.cards[i].index.m_vector[d] : i \in 1..Len(opat.cards)}
    IN  qv[d] < Min(stored) \/ qv[d] > Max(stored)

-----------------------------------------------------------------------------
(* Key properties (specification SpecKey) *)

\* C5: FloatIndexVector equality.  a == b (in either order of the operands)
\* holds exactly when both keys are initialized, have the same number N of
\* values, the same precision, and integer images of N elements that are
\* elementwise equal; a != b is the negation.
C5_Equality ==
    keyCall.op \in {"eq", "eqRev", "ne"} =>
        LET b == keyCall.other
            same == /\ a.m_initialized /\ b.m_initialized
                    /\ Len(a.m_vector) = Len(b.m_vector)
                    /\ a.m_hashPrescision = b.m_hashPrescision
                    /\ Len(a.m_vectorInt) = Len(a.m_vector)
                    /\ a.m_vectorInt = b.m_vectorInt
        IN  IF keyCall.op = "ne"
            THEN keyCall.outcome = (IF same THEN "false" ELSE "true")
            ELSE keyCall.outcome = (IF same THEN "true" ELSE "false")

\* C6: integer image of a key.  After a constructor has built a key at a
\* precision p in 1..13 from non-negative values, every image element is
\* ((trunc(v * 10^p) + 5) div 10) * 10, the arithmetic done without wrap-around.
C6_IntegerImage ==
    ( /\ keyCall.op = "ctor" /\ ~keyCall.threw
      /\ keyCall.prec >= 1 /\ keyCall.prec <= 13
      /\ \A i \in 1..Len(keyCall.vec) : keyCall.vec[i] >= 0 )
    => /\ Len(a.m_vectorInt) = Len(keyCall.vec)
       /\ \A i \in 1..Len(keyCall.vec) :
             LET s == ScaledTrunc(keyCall.vec[i], keyCall.prec)
                 t == s.m * (IF s.m = 0 THEN 1 ELSE Pow10(s.e))
             IN  /\ FitsInt(s)
                 /\ a.m_vectorInt[i] >= 0
                 /\ a.m_vectorInt[i] % 10 = 0
                 /\ a.m_vectorInt[i] \div 10 = (t \div 10) + (IF t % 10 >= 5 THEN 1 ELSE 0)

\* C7: key construction validity.  FloatIndexVector(values, p) succeeds exactly
\* when 1 <= p <= 13, values is not empty and every value is >= 0; otherwise it
\* fails with std::invalid_argument and leaves no key.
C7_ConstructionValidity ==
    keyCall.op = "ctor" =>
        LET valid == /\ keyCall.prec >= 1 /\ keyCall.prec <= 13
                     /\ keyCall.vec # <<>>
                     /\ \A i \in 1..Len(keyCall.vec) : keyCall.vec[i] >= 0
        IN  IF valid
            THEN ~keyCall.threw /\ a.object /\ a.m_initialized
            ELSE keyCall.threw /\ keyCall.type = "invalid_argument" /\ ~a.object

\* C8: key immutability.  No step taken on an initialized key changes its
\* values, its precision or its image, and setVector, setHashPrecision and
\* initialize on an initialized key fail.
C8_Immutability ==
    [][(a.object /\ a.m_initialized) =>
          /\ a' = a
          /\ keyCall'.op \in {"setVector", "setHashPrecision", "initialize"}
                => keyCall'.threw]_vars

-----------------------------------------------------------------------------
(* File lookup properties (specification Spec) *)

\* C9: lookup by raw values uses the file's precision.  For a file whose
\* header precision is in 1..13, get(std::vector<double>) and
\* operator[](std::vector<double>) with the values of a stored key return the
\* card stored under that key.
C9_LookupByValues ==
    \A i \in 1..Len(opat.cards) :
        ( /\ call.op \in {"getByValues", "indexByValues"}
          /\ call.arg = opat.cards[i].index.m_vector
          /\ opat.header.hashPrecision >= 1 /\ opat.header.hashPrecision <= 13 )
        => ~call.threw /\ call.card = opat.cards[i].card

\* C10: missing key or tag.  OPAT::get with a key that is not in the file and
\* DataCard::get with a tag that is not in the card fail with
\* std::out_of_range, and the file is unchanged by the call.
C10_MissingKeyOrTag ==
    [][( \/ /\ call'.op = "getByKey"
            /\ \A i \in 1..Len(opat.cards) : opat.cards[i].index.m_vector # call'.arg
         \/ /\ call'.op = "cardGet"
            /\ \A i \in 1..Len(opat.cards) :
                  call'.tag \notin DOMAIN opat.cards[i].card.tableData )
       => /\ call'.threw
          /\ call'.type = "out_of_range"
          /\ opat' = opat]_vars

-----------------------------------------------------------------------------
(* Reader properties (specification SpecRead) *)

\* whether the integer of these base-256 digits is one the model's integers hold
Small(digits) == \A i \in 4..Len(digits) : digits[i] = 0

\* the table stored under the tag of index entry e of a loaded card agrees with
\* e: rows, columns, vector size, and a buffer of rows * columns * size doubles
TableMatchesEntry(card, e) ==
    /\ e.tag \in DOMAIN card.tableData
    /\ card.tableData[e.tag].N_R = ToInt(e.numRows)
    /\ card.tableData[e.tag].N_C = ToInt(e.numColumns)
    /\ Bytes(card.tableData[e.tag].m_vsize, 8) = e.size
    /\ Small(e.size)
    /\ Len(card.tableData[e.tag].data)
          = ToInt(e.numRows) * ToInt(e.numColumns) * ToInt(e.size)

\* C11: loaded tables match their index entries.  After readOPAT has returned
\* a file, every key of its card catalog has a card (file.get(k) succeeds), and
\* for every entry e of that card's table index the table stored under e.tag has
\* e.numRows rows, e.numColumns columns, vector size e.size and a data buffer
\* of exactly numRows * numColumns * size doubles.
C11_LoadedTablesMatchIndex ==
    (call.op = "readOPAT" /\ ~call.out.threw) =>
        \A k \in 1..Len(call.out.value.cardCatalog.tableIndex) :
            LET got == OPATGet(call.out.value, call.out.value.cardCatalog.tableIndex[k].key)
            IN  /\ ~got.threw
                /\ \A i \in 1..Len(got.value.tableIndex.tableIndex) :
                       TableMatchesEntry(got.value, got.value.tableIndex.tableIndex[i].value)

\* entry value of a catalog is the entry of on-disk catalog record rec
EntryOfRecord(value, rec) ==
    /\ value.index.m_vector = rec.index
    /\ value.byteStart = Bytes(rec.byteStart, 8)
    /\ value.byteEnd = Bytes(rec.byteEnd, 8)

\* C12: catalog completeness.  After readCardCatalog has returned, the catalog
\* has exactly header.numTables entries, and every on-disk catalog record (the
\* i-th lies at indexOffset + i * (8 * numIndex + 48)) is the entry of one of
\* them: no record is lost.
C12_CatalogComplete ==
    (call.op = "readCardCatalog" /\ ~call.out.threw) =>
        /\ Len(call.out.value.tableIndex) = disk.header.numTables
        /\ \A i \in 1..Len(disk.catalog) :
              \E k \in 1..Len(call.out.value.tableIndex) :
                  EntryOfRecord(call.out.value.tableIndex[k].value, disk.catalog[i])

\* the number of bytes file d declares: the end of its header, of its catalog
\* and of every card (header, table index and the payloads up to byteEnd)
DeclaredSize(d) ==
    LET ends == {SizeofHeader, d.catalogAt + Len(d.catalog) * d.recordSize}
                  \cup {d.cards[j].at + d.cards[j].header.cardSize : j \in 1..Len(d.cards)}
    IN  CHOOSE x \in ends : \A y \in ends : y <= x

\* C13: truncated files are rejected.  Whenever the file holds fewer bytes
\* than its header, catalog, card headers, table indexes and table payloads
\* declare, readOPAT fails: it returns no file.
C13_TruncatedRejected ==
    (call.op = "readOPAT" /\ disk.size < DeclaredSize(disk)) => call.out.threw

\* header h in memory has, field by field, the values file d stores
HeaderAsOnDisk(h, d) ==
    /\ h.version = Bytes(d.header.version, 2)
    /\ h.numTables = Bytes(d.header.numTables, 4)
    /\ h.headerSize = Bytes(d.header.headerSize, 4)
    /\ h.indexOffset = Bytes(d.header.indexOffset, 8)
    /\ h.numIndex = Bytes(d.header.numIndex, 2)

\* card header h in memory has the values the card header c of the file stores
CardHeaderAsOnDisk(h, c) ==
    /\ h.numTables = Bytes(c.numTables, 4)
    /\ h.headerSize = Bytes(c.headerSize, 4)
    /\ h.indexOffset = Bytes(c.indexOffset, 8)
    /\ h.cardSize = Bytes(c.cardSize, 8)

\* table index entry e in memory has the values the entry t of the file stores
TableIndexEntryAsOnDisk(e, t) ==
    /\ e.tag = t.tag
    /\ e.byteStart = Bytes(t.byteStart, 8)
    /\ e.byteEnd = Bytes(t.byteEnd, 8)
    /\ e.numColumns = Bytes(t.numColumns, 2)
    /\ e.numRows = Bytes(t.numRows, 2)
    /\ e.size = Bytes(t.size, 8)

\* the loaded card has the card header and the table index entries of card c
\* of the file
CardAsOnDisk(card, c) ==
    /\ CardHeaderAsOnDisk(card.header, c.header)
    /\ \A i \in 1..Len(card.tableIndex.tableIndex) :
          \E t \in 1..Len(c.tableIndex) :
              TableIndexEntryAsOnDisk(card.tableIndex.tableIndex[i].value, c.tableIndex[t])

\* C14: endianness.  On a big-endian host every multi-byte integer field the
\* reader has read (file header, catalog entries, card headers, table index
\* entries) has the value the little-endian file stores, which is the value a
\* little-endian host reads.
C14_BigEndianSameValues ==
    /\ (bigEndian /\ call.op = "readHeader" /\ ~call.out.threw) =>
           HeaderAsOnDisk(call.out.value, disk)
    /\ (bigEndian /\ call.op = "readOPAT" /\ ~call.out.threw) =>
           /\ HeaderAsOnDisk(call.out.value.header, disk)
           /\ \A k \in 1..Len(call.out.value.cardCatalog.tableIndex) :
                 \E i \in 1..Len(disk.catalog) :
                     EntryOfRecord(call.out.value.cardCatalog.tableIndex[k].value,
                                   disk.catalog[i])
           /\ \A k \in 1..Len(call.out.value.cards) :
                 \E j \in 1..Len(disk.cards) :
                     CardAsOnDisk(call.out.value.cards[k].card, disk.cards[j])

-----------------------------------------------------------------------------
(* Table properties (specification SpecTable) *)

\* the half-open range s is empty, reversed, or ends beyond length
BadRange(s, length) == s.end > length \/ s.start >= s.end

\* C15: slice range errors.  slice(rowSlice, colSlice) fails with
\* std::out_of_range, and returns no table, whenever the row range or the
\* column range has end > length or start >= end (empty and reversed ranges
\* included).
C15_SliceRangeErrors ==
    (/\ call.op = "slice"
     /\ \/ BadRange(call.args[1], table.N_R)
        \/ BadRange(call.args[2], table.N_C)) =>
        /\ call.out.threw
        /\ call.out.type = "out_of_range"

\* the table got is the sub-rectangle rowSlice x colSlice of t: shape, cells
\* and both axes
IsSubRectangle(got, t, rowSlice, colSlice) ==
    /\ got.N_R = rowSlice.end - rowSlice.start
    /\ got.N_C = colSlice.end - colSlice.start
    /\ Len(got.data) = got.N_R * got.N_C
    /\ \A i \in 0..(got.N_R - 1) : \A j \in 0..(got.N_C - 1) :
          /\ ~getData(got, i, j).threw
          /\ getData(got, i, j) = getData(t, rowSlice.start + i, colSlice.start + j)
    /\ got.rowValues = [i \in 1..got.N_R |-> t.rowValues[rowSlice.start + i]]
    /\ got.columnValues = [j \in 1..got.N_C |-> t.columnValues[colSlice.start + j]]

\* C16: slice content.  For valid half-open ranges [r0, r1) and [c0, c1),
\* slice returns a table of r1 - r0 rows and c1 - c0 columns whose cell (i, j)
\* is T(r0 + i, c0 + j) and whose axes are rowAxis[r0..r1) and colAxis[c0..c1);
\* the slice of the full ranges has T's data and axes; and slice leaves T
\* unchanged.
C16_SliceContent ==
    /\ [](( /\ call.op = "slice"
            /\ ~BadRange(call.args[1], table.N_R)
            /\ ~BadRange(call.args[2], table.N_C) ) =>
              /\ ~call.out.threw
              /\ IsSubRectangle(call.out.value, table, call.args[1], call.args[2])
              /\ (call.args = <<Slice(0, table.N_R), Slice(0, table.N_C)>>) =>
                     /\ call.out.value.data = table.data
                     /\ call.out.value.rowValues = table.rowValues
                     /\ call.out.value.columnValues = table.columnValues)
    /\ [][call'.op = "slice" => table' = table]_vars

\* a slice of the second row of a table of two rows has returned
C16_Witness ==
    /\ call.op = "slice"
    /\ ~call.out.threw
    /\ table.N_R = 2
    /\ call.args = <<Slice(1, 2), Slice(0, 2)>>
    /\ call.out.value.data[2] = table.data[4]

\* C17: row, column and cell agreement.  For r < numRows, getRow(r) is a table
\* of shape 1 x numCols with row axis [rowAxis[r]] and T's column axis, whose
\* cell (0, c) is T(r, c), which is cell (r, 0) of getColumn(c); and for
\* c < numCols getColumn(c) is the symmetric table of shape numRows x 1.
C17_RowColumnCell ==
    /\ (call.op = "getRow" /\ call.args[1] < table.N_R) =>
          /\ ~call.out.threw
          /\ call.out.value.N_R = 1
          /\ call.out.value.N_C = table.N_C
          /\ call.out.value.rowValues = <<table.rowValues[call.args[1] + 1]>>
          /\ call.out.value.columnValues = table.columnValues
          /\ \A c \in 0..(table.N_C - 1) :
                /\ ~getData(table, call.args[1], c).threw
                /\ getData(call.out.value, 0, c) = getData(table, call.args[1], c)
                /\ \A oob \in ReadOutcomes, vsize \in UnsetSizes :
                      /\ ~getColumn(table, c, oob, vsize).threw
                      /\ getData(getColumn(table, c, oob, vsize).value, call.args[1], 0)
                            = getData(table, call.args[1], c)
    /\ (call.op = "getColumn" /\ call.args[1] < table.N_C) =>
          /\ ~call.out.threw
          /\ call.out.value.N_R = table.N_R
          /\ call.out.value.N_C = 1
          /\ call.out.value.columnValues = <<table.columnValues[call.args[1] + 1]>>
          /\ call.out.value.rowValues = table.rowValues
          /\ \A r \in 0..(table.N_R - 1) :
                /\ ~getData(table, r, call.args[1]).threw
                /\ getData(call.out.value, r, 0) = getData(table, r, call.args[1])

\* getRow of the second row of a table of two rows and two columns has returned
C17_Witness ==
    /\ call.op = "getRow"
    /\ call.args = <<1>>
    /\ table.N_R = 2
    /\ table.N_C = 2
    /\ ~call.out.threw
    /\ call.out.value.data[1] = table.data[3]

-----------------------------------------------------------------------------
(* Lattice properties (specification SpecLattice) *)

\* C18: only linear interpolation.  A constructor given a type other than
\* Linear fails and leaves no lattice; setInterpolationType with a type other
\* than Linear fails and leaves the stored type unchanged; so the stored type
\* of a lattice is Linear in every reachable state, and getInterpolationType
\* returns Linear.
C18_OnlyLinear ==
    /\ []((call.op = "TableLattice" /\ call.arg \notin {"default", "Linear"}) =>
              (call.threw /\ ~constructed))
    /\ [][(call'.op = "setInterpolationType" /\ call'.arg # "Linear") =>
              (call'.threw /\ m_interpolationType' = m_interpolationType)]_vars
    /\ [](constructed => m_interpolationType = "Linear")
    /\ [](call.op = "getInterpolationType" => (~call.threw /\ call.value = "Linear"))

\* setInterpolationType(Quadratic) has been called on a lattice
C18_Witness ==
    /\ constructed
    /\ call.op = "setInterpolationType"
    /\ call.arg = "Quadratic"

\* C19: bounded walk.  Whatever the adjacency table holds (corrupt and cyclic
\* tables included) and whatever the query, the walk of get ends, with a
\* located simplex or an exception, having visited at most 2 * |simplices| + 10
\* simplices, and none of them twice.
C19_BoundedWalk ==
    call.op = "get" =>
        /\ Len(call.visited) <= 2 * Len(m_simplices) + 10
        /\ \A j, k \in 1..Len(call.visited) : j # k => call.visited[j] # call.visited[k]

\* on a cyclic adjacency table the walk came back to a simplex it had left and
\* ended there
C19_Witness ==
    /\ call.op = "get"
    /\ call.threw
    /\ call.what = "Cycle detected"
    /\ Len(call.visited) >= 2
    /\ m_simplexAdjacency # BuildAdjacency(m_simplices)

-----------------------------------------------------------------------------
(* Cache properties (specification Spec) *)

\* C20: a failed get keeps the cache.  A get that fails, for whatever reason,
\* leaves the warm-start cache (the ID and the weights of m_lastFoundSimplex)
\* as it was before the call, and the triangulation and the file unchanged.
C20_FailedGetKeepsCache ==
    [][(call'.op = "get" /\ call'.threw) =>
          /\ m_lastFoundSimplex' = m_lastFoundSimplex
          /\ UNCHANGED <<opat, m_indexVectors, m_simplices, m_simplexAdjacency>>]_vars

\* C20 amended: a get that fails in validation or in the location of the
\* simplex (dimension mismatch, out of bounds, out of hull, cycle, no exit
\* face, singular simplex) leaves the warm-start cache as it was before the
\* call; a get that fails after the simplex was located (a corner's card has
\* no table of a tag of the anchor's card) leaves in the cache the simplex
\* located for the query, with its weights; the triangulation and the file
\* are unchanged by every failed get.
C20_FailedLocationKeepsCache ==
    [][(call'.op = "get" /\ call'.threw) =>
          /\ UNCHANGED <<opat, m_indexVectors, m_simplices, m_simplexAdjacency>>
          /\ IF \/ validateIndexVector(opat, QueryKey(call'.arg)).threw
                \/ findContainingSimplex(opat, m_indexVectors, m_simplices,
                                         m_simplexAdjacency, m_lastFoundSimplex,
                                         QueryKey(call'.arg)).threw
             THEN m_lastFoundSimplex' = m_lastFoundSimplex
             ELSE /\ m_lastFoundSimplex'.ID \in 0..(Len(m_simplices) - 1)
                  /\ m_lastFoundSimplex'.ID = call'.visited[Len(call'.visited)]
                  /\ m_lastFoundSimplex'.barycentricWeights =
                        findContainingSimplex(opat, m_indexVectors, m_simplices,
                                              m_simplexAdjacency, m_lastFoundSimplex,
                                              QueryKey(call'.arg)).barycentricWeights]_vars

\* a get from a warm cache has failed with the query outside the hull, and
\* the cache still holds a simplex
C20_Witness ==
    /\ call.op = "get"
    /\ call.threw
    /\ call.what = "Query point is outside the convex hull"
    /\ m_lastFoundSimplex.ID # NO_NEIGHBOR_SENTINEL

-----------------------------------------------------------------------------
(* Thread properties *)

\* C21: thread safety of the warm-start cache.  When two get calls run
\* concurrently on one lattice, each call that locates a simplex gets back from
\* findContainingSimplex the simplex ID and the barycentric weights its own walk
\* computed for its own query, never an ID or weights stored by the other call.
C21_OwnSimplexReturned ==
    \A t \in Threads :
        (threads[t].pc = "done" /\ ~threads[t].threw) =>
            /\ threads[t].ret.ID = threads[t].ID
            /\ threads[t].ret.barycentricWeights = threads[t].barycentricWeights

-----------------------------------------------------------------------------
(* Walk properties *)

\* -1e-8 <= num / den <= 1 + 1e-8, for den > 0
WithinUnitRange(num, den) ==
    /\ num >= 0 \/ den \div (-num) >= TolDen
    /\ num <= den \/ den \div (num - den) >= TolDen

\* |sum / den - 1| <= 1e-8, for den > 0
SumsToOne(sum, den) ==
    \/ sum = den
    \/ sum > den /\ den \div (sum - den) >= TolDen
    \/ sum < den /\ den \div (den - sum) >= TolDen

-----------------------------------------------------------------------------
(* Properties of get across calls *)

RECURSIVE GCD(_, _)
GCD(m, n) == IF n = 0 THEN m ELSE GCD(n, m % n)

Abs(n) == IF n < 0 THEN -n ELSE n

\* the fractions num1 / den1 and num2 / den2 (den1, den2 > 0) are one number
SameFraction(num1, den1, num2, den2) ==
    LET g1 == GCD(Abs(num1), den1)
        g2 == GCD(Abs(num2), den2)
    IN  /\ Abs(num1) \div g1 = Abs(num2) \div g2
        /\ den1 \div g1 = den2 \div g2
        /\ (num1 < 0) = (num2 < 0)

\* two cells hold the same value: both NaN, or the same number; what a read
\* past the end of a buffer yields is no value a caller can rely on
SameCell(x, y) ==
    \/ x.kind = "nan" /\ y.kind = "nan"
    \/ x.kind = "num" /\ y.kind = "num" /\ SameFraction(x.num, x.den, y.num, y.den)

\* two DataCards with the same tags, header, dimensions, axes and cell values
SameCard(c, d) ==
    /\ DOMAIN c.tableData = DOMAIN d.tableData
    /\ c.header = d.header
    /\ \A tag \in DOMAIN c.tableData :
          LET t == c.tableData[tag]
              u == d.tableData[tag]
          IN  /\ t.N_R = u.N_R /\ t.N_C = u.N_C /\ t.m_vsize = u.m_vsize
              /\ t.rowValues = u.rowValues /\ t.columnValues = u.columnValues
              /\ Len(t.data) = Len(u.data)
              /\ \A idx \in 1..Len(t.data) : SameCell(t.data[idx], u.data[idx])

\* two outcomes of get: the same error, or the same card
SameOutcome(x, y) ==
    /\ x.threw = y.threw
    /\ x.type = y.type
    /\ x.threw \/ SameCard(x.card, y.card)

\* C23: history independence of get.  For a fixed file and triangulation the
\* outcome of get(q), the error raised or the card returned, is the one the
\* same call has on the lattice just constructed, whatever get calls came
\* before it.
C23_HistoryIndependent ==
    call.op = "get" =>
        SameOutcome(call, TableLatticeGet(opat, m_indexVectors, m_simplices,
                                          m_simplexAdjacency, NoSimplex,
                                          QueryKey(call.arg)))

\* where the claim lets a walk begin: at the simplex the cache holds, at
\* simplex 0 when it holds none
StartOfWalk(cache) ==
    IF cache.ID # NO_NEIGHBOR_SENTINEL /\ cache.ID < Len(m_simplices) THEN cache.ID ELSE 0

\* the simplex a walk has ended in (the last it visited), with the exact
\* weights of the query qv in it
EndOfWalk(visited, qv) ==
    [ID |-> visited[Len(visited)],
     barycentricWeights |-> WeightsIn(visited[Len(visited)] + 1, qv)]

\* C24 as stated: warm start.  The cache holds nothing before the first get; the
\* walk of each get begins at the simplex the cache holds, else at simplex 0; a
\* successful get leaves in the cache the simplex it located with its weights,
\* and a failed get leaves the cache alone: so the cache is at every moment the
\* simplex located by the most recent successful get.
C24_WarmStartFromLastSuccess ==
    /\ m_lastFoundSimplex = NoSimplex
    /\ [][call'.op = "get" =>
             /\ call'.visited # <<>> =>
                   call'.visited[1] = StartOfWalk(m_lastFoundSimplex)
             /\ ~call'.threw =>
                   m_lastFoundSimplex' = EndOfWalk(call'.visited, call'.arg)
             /\ call'.threw => m_lastFoundSimplex' = m_lastFoundSimplex]_vars

\* C24 amended: warm start from the simplex last located.  The cache holds
\* nothing before the first get; the walk of each get begins at the simplex the
\* cache holds, else at simplex 0; a get that returns leaves in the cache the
\* simplex it located with its weights; a get that fails leaves the cache
\* alone, or, when it failed after its walk had located a simplex, leaves that
\* simplex and its weights in the cache.
C24_WarmStartFromLastLocated ==
    /\ m_lastFoundSimplex = NoSimplex
    /\ [][call'.op = "get" =>
             /\ call'.visited # <<>> =>
                   call'.visited[1] = StartOfWalk(m_lastFoundSimplex)
             /\ ~call'.threw =>
                   m_lastFoundSimplex' = EndOfWalk(call'.visited, call'.arg)
             /\ call'.threw =>
                   \/ m_lastFoundSimplex' = m_lastFoundSimplex
                   \/ /\ call'.visited # <<>>
                      /\ m_lastFoundSimplex' = EndOfWalk(call'.visited, call'.arg)
                      /\ \A i \in 1..Len(m_lastFoundSimplex'.barycentricWeights.nums) :
                            WithinUnitRange(m_lastFoundSimplex'.barycentricWeights.nums[i],
                                            m_lastFoundSimplex'.barycentricWeights.den)]_vars

\* a get has begun its walk at a cached simplex other than simplex 0, moved on
\* and located the query in another simplex, which the cache now holds
C24_Witness ==
    /\ call.op = "get"
    /\ ~call.threw
    /\ Len(call.visited) >= 2
    /\ call.visited[1] # 0
    /\ m_lastFoundSimplex.ID = call.visited[Len(call.visited)]

\* every barycentric weight of the query qv in simplex id (0-based) is >= -1e-8
AllWeightsAboveNegTol(id, qv) ==
    \A i \in 1..Len(WeightsIn(id + 1, qv).nums) :
        \/ WeightsIn(id + 1, qv).nums[i] >= 0
        \/ WeightsIn(id + 1, qv).den \div (-WeightsIn(id + 1, qv).nums[i]) >= TolDen

\* the local index (0-based) of the most negative weight of qv in simplex id,
\* the first of them if several are equal
MostNegative(id, qv) ==
    LET w == WeightsIn(id + 1, qv).nums
    IN  (CHOOSE i \in 1..Len(w) :
            /\ \A j \in 1..Len(w) : w[i] <= w[j]
            /\ \A j \in 1..(i - 1) : w[j] > w[i]) - 1

\* the errors get raises after its walk has located the simplex
AfterLocation ==
    call.what \in {"Table not found for the given tag.",
                   "Card not found for the given index."}

\* C25: containment test of the walk.  In each simplex a walk has left, the
\* query had a weight below -1e-8 and the walk moved to the neighbor across
\* the face opposite the vertex of the most negative weight; when all weights
\* of the query in the simplex the walk ended in are >= -1e-8, the walk has
\* returned that simplex with those weights and not ended in an error.
C25_ContainmentTest ==
    (call.op = "get" /\ call.visited # <<>>) =>
        /\ \A k \in 1..(Len(call.visited) - 1) :
              /\ ~AllWeightsAboveNegTol(call.visited[k], call.arg)
              /\ call.visited[k + 1] =
                    At(At(m_simplexAdjacency, call.visited[k]),
                       MostNegative(call.visited[k], call.arg))
        /\ AllWeightsAboveNegTol(call.visited[Len(call.visited)], call.arg) =>
              /\ call.threw => AfterLocation
              /\ m_lastFoundSimplex = EndOfWalk(call.visited, call.arg)

-----------------------------------------------------------------------------
(* Properties of the synthesized card *)

\* the cards of the corners of the simplex the cache holds, in vertex order
CornerCards ==
    [c \in 1..Len(At(m_simplices, m_lastFoundSimplex.ID)) |->
        OPATGet(opat, At(m_indexVectors,
                         At(m_simplices, m_lastFoundSimplex.ID)[c])).value]

\* the sum over the corners c..N of nums[c] * cells[c].num, the cells being
\* stored numbers
RECURSIVE WeightedSum(_, _, _)
WeightedSum(cells, nums, c) ==
    IF c > Len(cells) THEN 0
    ELSE nums[c] * cells[c].num + WeightedSum(cells, nums, c + 1)

\* cell i of the table `tag` in every corner card
CornerCells(tag, i) ==
    [c \in DOMAIN CornerCards |-> CornerCards[c].tableData[tag].data[i]]

\* every corner card holds a cell i in its table `tag`
InEveryCorner(tag, i) ==
    \A c \in DOMAIN CornerCards : i <= Len(CornerCards[c].tableData[tag].data)

\* C26: result synthesis.  The card a get returns has the header and exactly
\* the tags of the anchor card (the card of the located simplex's first vertex);
\* each of its tables has the anchor's dimensions and axes and a cell for every
\* cell of the anchor's table; cell i, where every corner holds a cell i, is NaN
\* when the cell i of some corner is NaN, and otherwise the sum over the corners
\* of weight times the corner's cell.
C26_ResultSynthesis ==
    (call.op = "get" /\ ~call.threw) =>
        /\ call.card.header = CornerCards[1].header
        /\ DOMAIN call.card.tableData = DOMAIN CornerCards[1].tableData
        /\ \A tag \in DOMAIN CornerCards[1].tableData :
              LET t == call.card.tableData[tag]
                  b == CornerCards[1].tableData[tag]
              IN  /\ t.N_R = b.N_R /\ t.N_C = b.N_C /\ t.m_vsize = b.m_vsize
                  /\ t.rowValues = b.rowValues /\ t.columnValues = b.columnValues
                  /\ Len(t.data) = Len(b.data)
                  /\ \A i \in {j \in 1..Len(b.data) : InEveryCorner(tag, j)} :
                        IF \E c \in DOMAIN CornerCards : CornerCells(tag, i)[c].kind = "nan"
                        THEN t.data[i].kind = "nan"
                        ELSE /\ t.data[i].kind = "num"
                             /\ SameFraction(t.data[i].num, t.data[i].den,
                                    WeightedSum(CornerCells(tag, i),
                                                m_lastFoundSimplex.barycentricWeights.nums, 1),
                                    m_lastFoundSimplex.barycentricWeights.den)

\* the walk of the call has located a simplex: the call returned, or failed
\* in the synthesis
Located == call.visited # <<>> /\ (call.threw => AfterLocation)

\* the cards of the corners of the simplex the walk of the call ended in
LocatedCorners ==
    [c \in 1..Len(At(m_simplices, call.visited[Len(call.visited)])) |->
        OPATGet(opat, At(m_indexVectors,
                         At(m_simplices, call.visited[Len(call.visited)])[c])).value]

\* every corner holds, for every tag of the anchor, a table with the anchor's
\* numRows, numCols, vector size and axes
Congruent(corners) ==
    \A tag \in DOMAIN corners[1].tableData : \A c \in DOMAIN corners :
        /\ tag \in DOMAIN corners[c].tableData
        /\ corners[c].tableData[tag].N_R = corners[1].tableData[tag].N_R
        /\ corners[c].tableData[tag].N_C = corners[1].tableData[tag].N_C
        /\ corners[c].tableData[tag].m_vsize = corners[1].tableData[tag].m_vsize
        /\ corners[c].tableData[tag].rowValues = corners[1].tableData[tag].rowValues
        /\ corners[c].tableData[tag].columnValues = corners[1].tableData[tag].columnValues

\* C27: congruence check.  When the corners of the located simplex are not
\* congruent (for some tag of the anchor a corner lacks the table, or holds it
\* with other dimensions, vector size or axes), get fails: it returns no card.
C27_CongruenceCheck ==
    (call.op = "get" /\ Located /\ ~Congruent(LocatedCorners)) => call.threw

-----------------------------------------------------------------------------
(* Properties of the integer image of a key *)

\* the rounded images the values of the key can have, one per outcome of an
\* out-of-range conversion; none when a value has no image
RoundedImages(iv) ==
    {[i \in 1..Len(iv.m_vector) |->
         ImageElement(iv.m_vector[i], iv.m_hashPrescision, ub).value] :
       ub \in {u \in UBOutcomes :
                 \A i \in 1..Len(iv.m_vector) :
                    ~ImageElement(iv.m_vector[i], iv.m_hashPrescision, u).threw}}

\* C28: image length invariant.  An initialized FloatIndexVector, whichever way
\* it came to be initialized, has an integer image as long as its values that
\* holds the rounded image of those values; and two initialized keys whose
\* values have different rounded images compare unequal.
C28_ImageLength ==
    /\ (a.object /\ a.m_initialized) =>
          /\ Len(a.m_vectorInt) = Len(a.m_vector)
          /\ RoundedImages(a) # {} => a.m_vectorInt \in RoundedImages(a)
    /\ (/\ keyCall.op \in {"eq", "eqRev"}
        /\ a.m_initialized /\ keyCall.other.m_initialized
        /\ RoundedImages(a) # {} /\ RoundedImages(keyCall.other) # {}
        /\ RoundedImages(a) \cap RoundedImages(keyCall.other) = {})
          => keyCall.outcome = "false"

-----------------------------------------------------------------------------
(* Properties of the step cap (specification SpecWalk) *)

\* the passes the loop of the walk of the call has begun: one per simplex
\* visited, and the pass that ended at the checks before a visit
WalkSteps ==
    Len(call.visited) +
        (IF call.threw /\ call.what \in {"Cycle detected",
                                         "currentSimplexID is out of bounds"}
         THEN 1 ELSE 0)

\* C29: the step cap is never the reason a walk ends.  Whatever the adjacency
\* table, no get fails with the maximum-walk-steps error, and the walk of every
\* get ends within |simplices| + 1 passes of its loop.
C29_StepCapUnreachable ==
    call.op = "get" =>
        /\ ~(call.threw /\ call.what = "maximum walk steps")
        /\ WalkSteps <= Len(m_simplices) + 1

\* a walk that entered every simplex and ended in the pass after them, on the
\* way back into one of them
C29_Witness ==
    /\ call.op = "get"
    /\ call.threw
    /\ call.what = "Cycle detected"
    /\ Len(call.visited) = Len(m_simplices)
    /\ WalkSteps = Len(m_simplices) + 1

-----------------------------------------------------------------------------
(* Properties of the C wrapper (specification SpecWrapper) *)

\* C30: C wrapper without a loaded file.  After any sequence of wrapper calls,
\* a get_opat_table_c made while no file is loaded returns, with a non-zero
\* errorCode and null row, column and data pointers, and has not read through
\* loaded_opat_file.
C30_GetWithoutLoadedFile ==
    (call.op = "get_opat_table_c" /\ loaded_opat_file = "nullptr") =>
        /\ ~call.crashed
        /\ ~call.deref
        /\ call.result.errorCode # 0
        /\ call.result.rowValuesPtr = "nullptr"
        /\ call.result.colValuesPtr = "nullptr"
        /\ call.result.dataPtr = "nullptr"

====
